---- MODULE Spec2Model ----
(***************************************************************************)
(* The safety-gated tmux session engine of servers/tmux/pkg/tmuxmcp:       *)
(* session resolution, the content-fingerprint gate in front of send-keys  *)
(* and kill-session, session creation and the polling waits.               *)
(*                                                                         *)
(* Text (session names, pane content, keys, formatted output) is a         *)
(* sequence of byte values.  The tmux server is the variable sessions: the *)
(* live session names and the raw content capture-pane prints for each.    *)
(* A tool handler runs one backend call (one tmux process) per step; the   *)
(* programs inside the sessions and other tmux clients run in between.     *)
(***************************************************************************)
EXTENDS Integers, Sequences, FiniteSets, TLC

(***************************************************************************)
(* Bounds of the model                                                     *)
(***************************************************************************)
\* longest pane content, in bytes
MaxLen == 2
\* most sessions alive on the tmux server at one time
MaxSessions == 2
\* how many distinct random suffixes rng.Intn can produce (1000 ..)
MaxRand == 1

(***************************************************************************)
(* Bytes and strings                                                       *)
(***************************************************************************)
NL == 10
SP == 32
KeyText == <<107>>
OutText == <<120>>

EmptyStr == <<>>

RECURSIVE Concat(_)
Concat(parts) ==
    IF parts = <<>> THEN <<>> ELSE Head(parts) \o Concat(Tail(parts))

\* strings.HasPrefix
HasPrefix(str, pre) ==
    /\ Len(pre) <= Len(str)
    /\ SubSeq(str, 1, Len(pre)) = pre

\* strings.Contains
Contains(str, sub) ==
    \E i \in 0..(Len(str) - Len(sub)) : SubSeq(str, i + 1, i + Len(sub)) = sub

\* strings.Split(str, "\n")
RECURSIVE SplitLines(_)
SplitLines(str) ==
    IF \A i \in 1..Len(str) : str[i] # NL THEN <<str>>
    ELSE LET cut == CHOOSE i \in 1..Len(str) :
                        str[i] = NL /\ \A j \in 1..(i - 1) : str[j] # NL
         IN  <<SubSeq(str, 1, cut - 1)>> \o SplitLines(SubSeq(str, cut + 1, Len(str)))

\* strings.Join(strs, "\n")
RECURSIVE JoinLines(_)
JoinLines(strs) ==
    IF strs = <<>> THEN <<>>
    ELSE IF Len(strs) = 1 THEN strs[1]
    ELSE strs[1] \o <<NL>> \o JoinLines(Tail(strs))

\* strings.TrimSpace(line) == ""
IsBlank(line) == \A i \in 1..Len(line) : line[i] \in {SP, 9, 11, 12, 13, NL}

\* the %d verb of fmt.Sprintf
RECURSIVE Decimal(_)
Decimal(num) ==
    IF num < 10 THEN <<48 + num>> ELSE Decimal(num \div 10) \o <<48 + (num % 10)>>

(***************************************************************************)
(* calculateHash (client.go:243): the first 8 hex characters of SHA-256 of *)
(* the captured bytes.  A 32-bit word is a pair <<hi, lo>> of 16-bit       *)
(* halves, so that every intermediate value keeps its width.               *)
(***************************************************************************)
Half == 65536

Pow2(n) == 2^n

\* XorTab[16 * a + b + 1] is the exclusive or of the 4-bit values a and b
XorTab ==
  <<   0, 1, 2, 3, 4, 5, 6, 7, 8, 9, 10, 11, 12, 13, 14, 15,
     1, 0, 3, 2, 5, 4, 7, 6, 9, 8, 11, 10, 13, 12, 15, 14,
     2, 3, 0, 1, 6, 7, 4, 5, 10, 11, 8, 9, 14, 15, 12, 13,
     3, 2, 1, 0, 7, 6, 5, 4, 11, 10, 9, 8, 15, 14, 13, 12,
     4, 5, 6, 7, 0, 1, 2, 3, 12, 13, 14, 15, 8, 9, 10, 11,
     5, 4, 7, 6, 1, 0, 3, 2, 13, 12, 15, 14, 9, 8, 11, 10,
     6, 7, 4, 5, 2, 3, 0, 1, 14, 15, 12, 13, 10, 11, 8, 9,
     7, 6, 5, 4, 3, 2, 1, 0, 15, 14, 13, 12, 11, 10, 9, 8,
     8, 9, 10, 11, 12, 13, 14, 15, 0, 1, 2, 3, 4, 5, 6, 7,
     9, 8, 11, 10, 13, 12, 15, 14, 1, 0, 3, 2, 5, 4, 7, 6,
     10, 11, 8, 9, 14, 15, 12, 13, 2, 3, 0, 1, 6, 7, 4, 5,
     11, 10, 9, 8, 15, 14, 13, 12, 3, 2, 1, 0, 7, 6, 5, 4,
     12, 13, 14, 15, 8, 9, 10, 11, 4, 5, 6, 7, 0, 1, 2, 3,
     13, 12, 15, 14, 9, 8, 11, 10, 5, 4, 7, 6, 1, 0, 3, 2,
     14, 15, 12, 13, 10, 11, 8, 9, 6, 7, 4, 5, 2, 3, 0, 1,
     15, 14, 13, 12, 11, 10, 9, 8, 7, 6, 5, 4, 3, 2, 1, 0 >>

Nib(a, k) == (a \div Pow2(4 * k)) % 16

Xor16(a, b) ==
      XorTab[16 * Nib(a, 0) + Nib(b, 0) + 1]
    + 16 * XorTab[16 * Nib(a, 1) + Nib(b, 1) + 1]
    + 256 * XorTab[16 * Nib(a, 2) + Nib(b, 2) + 1]
    + 4096 * XorTab[16 * Nib(a, 3) + Nib(b, 3) + 1]

\* a + b = (a xor b) + 2 * (a and b)
And16(a, b) == (a + b - Xor16(a, b)) \div 2

XorW(x, y) == <<Xor16(x[1], y[1]), Xor16(x[2], y[2])>>

AndW(x, y) == <<And16(x[1], y[1]), And16(x[2], y[2])>>

NotW(x) == <<Half - 1 - x[1], Half - 1 - x[2]>>

\* rotate right by n, 0 < n < 16, of the 32-bit word <<hi, lo>>
RotrSmall(x, n) ==
    <<(x[1] \div Pow2(n)) + (x[2] % Pow2(n)) * Pow2(16 - n),
      (x[2] \div Pow2(n)) + (x[1] % Pow2(n)) * Pow2(16 - n)>>

Rotr(x, n) ==
    IF n = 16 THEN <<x[2], x[1]>>
    ELSE IF n < 16 THEN RotrSmall(x, n)
    ELSE RotrSmall(<<x[2], x[1]>>, n - 16)

Shr(x, n) ==
    IF n >= 16 THEN <<0, x[1] \div Pow2(n - 16)>>
    ELSE <<x[1] \div Pow2(n),
           (x[2] \div Pow2(n)) + (x[1] % Pow2(n)) * Pow2(16 - n)>>

HalfAt(ws, k, i) == IF k <= Len(ws) THEN ws[k][i] ELSE 0

SumHalf(ws, i) ==
    HalfAt(ws, 1, i) + HalfAt(ws, 2, i) + HalfAt(ws, 3, i)
        + HalfAt(ws, 4, i) + HalfAt(ws, 5, i)

\* addition modulo 2^32 of the (at most five) words of the sequence ws
AddW(ws) ==
    LET lo == SumHalf(ws, 2)
        hi == SumHalf(ws, 1) + lo \div Half
    IN  <<hi % Half, lo % Half>>

BigSigma0(x) == XorW(XorW(Rotr(x, 2), Rotr(x, 13)), Rotr(x, 22))
BigSigma1(x) == XorW(XorW(Rotr(x, 6), Rotr(x, 11)), Rotr(x, 25))
SmallSigma0(x) == XorW(XorW(Rotr(x, 7), Rotr(x, 18)), Shr(x, 3))
SmallSigma1(x) == XorW(XorW(Rotr(x, 17), Rotr(x, 19)), Shr(x, 10))
Ch(e, f, g) == XorW(AndW(e, f), AndW(NotW(e), g))
Maj(a, b, c) == XorW(XorW(AndW(a, b), AndW(a, c)), AndW(b, c))

ShaK ==
  << <<17034, 12184>>, <<28983, 17553>>, <<46528, 64463>>, <<59829, 56229>>,
     <<14678, 49755>>, <<23025, 4593>>, <<37439, 33444>>, <<43804, 24277>>,
     <<55303, 43672>>, <<4739, 23297>>, <<9265, 34238>>, <<21772, 32195>>,
     <<29374, 23924>>, <<32990, 45566>>, <<39900, 1703>>, <<49563, 61812>>,
     <<58523, 27073>>, <<61374, 18310>>, <<4033, 40390>>, <<9228, 41420>>,
     <<11753, 11375>>, <<19060, 33962>>, <<23728, 43484>>, <<30457, 35034>>,
     <<38974, 20818>>, <<43057, 50797>>, <<45059, 10184>>, <<48985, 32711>>,
     <<50912, 3059>>, <<54695, 37191>>, <<1738, 25425>>, <<5161, 10599>>,
     <<10167, 2693>>, <<11803, 8504>>, <<19756, 28156>>, <<21304, 3347>>,
     <<25866, 29524>>, <<30314, 2747>>, <<33218, 51502>>, <<37490, 11397>>,
     <<41663, 59553>>, <<43034, 26187>>, <<49739, 35696>>, <<51052, 20899>>,
     <<53650, 59417>>, <<54937, 1572>>, <<62478, 13701>>, <<4202, 41072>>,
     <<6564, 49430>>, <<7735, 27656>>, <<10056, 30540>>, <<13488, 48309>>,
     <<14620, 3251>>, <<20184, 43594>>, <<23452, 51791>>, <<26670, 28659>>,
     <<29839, 33518>>, <<30885, 25455>>, <<33992, 30740>>, <<36039, 520>>,
     <<37054, 65530>>, <<42064, 27883>>, <<48889, 41975>>, <<50801, 30962>> >>

ShaH0 ==
  << <<27145, 58983>>, <<47975, 44677>>, <<15470, 62322>>, <<42319, 62778>>,
     <<20750, 21119>>, <<39685, 26764>>, <<8067, 55723>>, <<23520, 52505>> >>

\* byte j (0..63) of the single padded block of a message of at most 55 bytes
PadByte(msg, j) ==
    IF j < Len(msg) THEN msg[j + 1]
    ELSE IF j = Len(msg) THEN 128
    ELSE IF j = 62 THEN (8 * Len(msg)) \div 256
    ELSE IF j = 63 THEN (8 * Len(msg)) % 256
    ELSE 0

BlockWord(msg, t) ==
    <<PadByte(msg, 4 * t) * 256 + PadByte(msg, 4 * t + 1),
      PadByte(msg, 4 * t + 2) * 256 + PadByte(msg, 4 * t + 3)>>

\* one round: s is the working state a..h, w the window W[t..t+15] of the
\* message schedule
ShaRound(s, w, t) ==
    LET T1 == AddW(<<s[8], BigSigma1(s[5]), Ch(s[5], s[6], s[7]),
                     ShaK[t + 1], w[1]>>)
        T2 == AddW(<<BigSigma0(s[1]), Maj(s[1], s[2], s[3])>>)
    IN  <<AddW(<<T1, T2>>), s[1], s[2], s[3],
          AddW(<<s[4], T1>>), s[5], s[6], s[7]>>

ShaWindow(w) ==
    Append(Tail(w), AddW(<<SmallSigma1(w[15]), w[10], SmallSigma0(w[2]), w[1]>>))

\* rounds base .. base+15 applied to st = <<working state, window>>
ShaRounds16(st, base) ==
    LET St[t \in 0..16] ==
            IF t = 0 THEN st
            ELSE LET p == St[t - 1]
                 IN  IF Len(p) = 2
                     THEN <<ShaRound(p[1], p[2], base + t - 1), ShaWindow(p[2])>>
                     ELSE p
    IN  St[16]

\* first 32 bits of sha256.Sum256(msg)
Sum256Head(msg) ==
    LET s0 == <<ShaH0, [i \in 1..16 |-> BlockWord(msg, i - 1)]>>
        s1 == ShaRounds16(s0, 0)
        s2 == ShaRounds16(s1, 16)
        s3 == ShaRounds16(s2, 32)
        s4 == ShaRounds16(s3, 48)
    IN  IF Len(s1) = 2 /\ Len(s2) = 2 /\ Len(s3) = 2
        THEN AddW(<<ShaH0[1], s4[1][1]>>)
        ELSE <<0, 0>>

\* fmt.Sprintf("%x", h)[:8] of a digest whose first word is x
Hex8(x) ==
    <<x[1] \div 4096, (x[1] \div 256) % 16, (x[1] \div 16) % 16, x[1] % 16,
      x[2] \div 4096, (x[2] \div 256) % 16, (x[2] \div 16) % 16, x[2] % 16>>

\* Mutant of calculateHash: white space around the content is trimmed before
\* it is hashed
calculateHashTrimmed(content) ==
    LET ink == {i \in 1..Len(content) : content[i] \notin {SP, 9, 11, 12, 13, NL}}
        lo == CHOOSE i \in ink : \A j \in ink : i <= j
        hi == CHOOSE i \in ink : \A j \in ink : i >= j
    IN  Hex8(Sum256Head(IF ink = {} THEN EmptyStr ELSE SubSeq(content, lo, hi)))

calculateHash(content) == Hex8(Sum256Head(content))

(***************************************************************************)
(* formatOutput (client.go:215): line numbers, runs of blank lines         *)
(* compressed.                                                             *)
(***************************************************************************)
\* "[%d]: %s"
NumberedLine(lineNum, line) == <<91>> \o Decimal(lineNum) \o <<93, 58, 32>> \o line

\* "... %d empty testLines ..."
EmptyNote(emptyCount) ==
    <<46, 46, 46, 32>> \o Decimal(emptyCount)
        \o <<32, 101, 109, 112, 116, 121, 32, 116, 101, 115, 116, 76, 105, 110, 101, 115, 32, 46, 46, 46>>

\* the loop over lines: fm is <<formatted, emptyCount>> before line idx
RECURSIVE FormatLoop(_, _, _)
FormatLoop(lines, idx, fm) ==
    IF idx > Len(lines)
    THEN IF fm[2] > 1 THEN Append(fm[1], EmptyNote(fm[2])) ELSE fm[1]
    ELSE IF IsBlank(lines[idx])
         THEN FormatLoop(lines, idx + 1,
                  <<IF fm[2] + 1 = 1
                    THEN Append(fm[1], NumberedLine(idx, EmptyStr))
                    ELSE fm[1],
                    fm[2] + 1>>)
         ELSE FormatLoop(lines, idx + 1,
                  <<Append(IF fm[2] > 1 THEN Append(fm[1], EmptyNote(fm[2])) ELSE fm[1],
                           NumberedLine(idx, lines[idx])),
                    0>>)

formatOutput(output) == JoinLines(FormatLoop(SplitLines(output), 1, <<<<>>, 0>>))

(***************************************************************************)
(* Inputs and names                                                        *)
(***************************************************************************)
\* detectPrefix(): the sanitized name of the git repository the server runs in
\* (here the repository is called "a")
DetectedPrefix == <<97>>

\* names of the sessions other tmux clients create: "a"
ExtNames == {<<97>>}

\* the values rng.Intn(9000) + 1000 takes in the model
RandNums == 1000..(1000 + MaxRand - 1)

\* prefix arguments: none (detectPrefix is used), and "a-"
PrefixArgs == {EmptyStr, <<97, 45>>}
KeysArgs == {EmptyStr, KeyText}
ExpectArgs == {EmptyStr, KeyText}
CommandArgs == {<<>>}

\* the bytes a pane shows in the model
ContentBytes == {KeyText[1], NL, OutText[1]}

Contents == UNION {[1..len -> ContentBytes] : len \in 0..MaxLen}

(***************************************************************************)
(* The tmux server                                                         *)
(***************************************************************************)
\* byte-wise order of session names, the order list-sessions prints them in
NameLess(na, nb) ==
    \E i \in 1..(Len(nb)) :
        /\ \A j \in 1..(i - 1) : j <= Len(na) /\ na[j] = nb[j]
        /\ (i > Len(na) \/ (i <= Len(na) /\ na[i] < nb[i]))
        /\ i - 1 <= Len(na)

RECURSIVE SortNames(_)
SortNames(names) ==
    IF names = {} THEN <<>>
    ELSE LET first == CHOOSE n \in names : \A m \in names \ {n} : NameLess(n, m)
         IN  <<first>> \o SortNames(names \ {first})

\* What a backend query that fails whatever the sessions are (tmux missing,
\* context cancelled, tmux error) is made against: marked by a session with
\* the empty name, which tmux never has
Failing == [n \in {EmptyStr} |-> EmptyStr]

\* tmux list-sessions -F "#{session_name}": fails when no server is running,
\* that is when there is no session, and when the query itself fails
TmuxListSessions(srv) ==
    IF DOMAIN srv = {} \/ EmptyStr \in DOMAIN srv THEN [ok |-> FALSE, out |-> <<>>]
    ELSE [ok |-> TRUE, out |-> SortNames(DOMAIN srv)]

\* the cursor of a pane stands behind the last byte of its content
CursorY(content) == Len(SplitLines(content)) - 1

\* list (client.go:122)
list(srv, prefix) ==
    LET res == TmuxListSessions(srv)
        Match(s) == HasPrefix(s, prefix)
    IN  IF ~res.ok THEN <<>>
        ELSE IF prefix = EmptyStr THEN res.out
        ELSE SelectSeq(res.out, Match)

\* findSessionsByPrefix (client.go:194)
findSessionsByPrefix(srv, prefix) ==
    LET Match(s) == HasPrefix(s, prefix)
    IN  SelectSeq(list(srv, EmptyStr), Match)

\* Mutant of resolveSession: of several sessions with the prefix the first is
\* taken
resolveSessionFirstMatch(srv, prefix, session) ==
    IF session # EmptyStr
    THEN IF \E i \in 1..Len(list(srv, EmptyStr)) : list(srv, EmptyStr)[i] = session
         THEN [err |-> "none", name |-> session, candidates |-> <<>>]
         ELSE [err |-> "not_found", name |-> EmptyStr, candidates |-> <<>>]
    ELSE LET pfx == IF prefix = EmptyStr THEN DetectedPrefix ELSE prefix
             found == findSessionsByPrefix(srv, pfx)
         IN  IF Len(found) = 0
             THEN [err |-> "no_match", name |-> EmptyStr, candidates |-> <<>>]
             ELSE [err |-> "none", name |-> found[1], candidates |-> <<>>]

\* Mutant of resolveSession: an explicit name is matched as a prefix of the
\* live names
resolveSessionNameAsPrefix(srv, prefix, session) ==
    IF session # EmptyStr
    THEN IF findSessionsByPrefix(srv, session) # <<>>
         THEN [err |-> "none", name |-> findSessionsByPrefix(srv, session)[1],
               candidates |-> <<>>]
         ELSE [err |-> "not_found", name |-> EmptyStr, candidates |-> <<>>]
    ELSE LET pfx == IF prefix = EmptyStr THEN DetectedPrefix ELSE prefix
             found == findSessionsByPrefix(srv, pfx)
         IN  IF Len(found) = 0
             THEN [err |-> "no_match", name |-> EmptyStr, candidates |-> <<>>]
             ELSE IF Len(found) > 1
             THEN [err |-> "ambiguous", name |-> EmptyStr, candidates |-> found]
             ELSE [err |-> "none", name |-> found[1], candidates |-> <<>>]

\* Mutant of resolveSession: the failure of list-sessions is handed on
resolveSessionPropagating(srv, prefix, session) ==
    IF ~TmuxListSessions(srv).ok
    THEN [err |-> "list_failed", name |-> EmptyStr, candidates |-> <<>>]
    ELSE IF session # EmptyStr
    THEN IF \E i \in 1..Len(list(srv, EmptyStr)) : list(srv, EmptyStr)[i] = session
         THEN [err |-> "none", name |-> session, candidates |-> <<>>]
         ELSE [err |-> "not_found", name |-> EmptyStr, candidates |-> <<>>]
    ELSE LET pfx == IF prefix = EmptyStr THEN DetectedPrefix ELSE prefix
             found == findSessionsByPrefix(srv, pfx)
         IN  IF Len(found) = 0
             THEN [err |-> "no_match", name |-> EmptyStr, candidates |-> <<>>]
             ELSE IF Len(found) > 1
             THEN [err |-> "ambiguous", name |-> EmptyStr, candidates |-> found]
             ELSE [err |-> "none", name |-> found[1], candidates |-> <<>>]

\* resolveSession (client.go:160)
resolveSession(srv, prefix, session) ==
    IF session # EmptyStr
    THEN IF \E i \in 1..Len(list(srv, EmptyStr)) : list(srv, EmptyStr)[i] = session
         THEN [err |-> "none", name |-> session, candidates |-> <<>>]
         ELSE [err |-> "not_found", name |-> EmptyStr, candidates |-> <<>>]
    ELSE LET pfx == IF prefix = EmptyStr THEN DetectedPrefix ELSE prefix
             found == findSessionsByPrefix(srv, pfx)
         IN  IF Len(found) = 0
             THEN [err |-> "no_match", name |-> EmptyStr, candidates |-> <<>>]
             ELSE IF Len(found) > 1
             THEN [err |-> "ambiguous", name |-> EmptyStr, candidates |-> found]
             ELSE [err |-> "none", name |-> found[1], candidates |-> <<>>]

(***************************************************************************)
(* Session names made by createUniqueSessionWithEnv (part_013:21)          *)
(***************************************************************************)
IsAlnum(ch) == (ch >= 48 /\ ch <= 57) \/ (ch >= 65 /\ ch <= 90) \/ (ch >= 97 /\ ch <= 122)

\* filepath.Base
PathBase(path) ==
    LET Slashless(k) == \A i \in (k + 1)..Len(path) : path[i] = 47
        endAt == CHOOSE k \in 0..Len(path) :
                     Slashless(k) /\ (k = 0 \/ path[k] # 47)
        startAt == IF \E i \in 1..endAt : path[i] = 47
                   THEN (CHOOSE i \in 1..endAt :
                            path[i] = 47 /\ \A j \in (i + 1)..endAt : path[j] # 47) + 1
                   ELSE 1
    IN  IF path = EmptyStr THEN <<46>>
        ELSE IF endAt = 0 THEN <<47>>
        ELSE SubSeq(path, startAt, endAt)

cmdPart(command) ==
    LET cmdBase == PathBase(command[1])
        cut == IF Len(cmdBase) > 10 THEN SubSeq(cmdBase, 1, 10) ELSE cmdBase
        stripped == SelectSeq(cut, IsAlnum)
    IN  IF Len(command) > 0 /\ stripped # EmptyStr THEN stripped
        ELSE <<115, 101, 115, 115, 105, 111, 110>>

\* fmt.Sprintf("%s-%s", prefix, cmdPart), then fmt.Sprintf("%s-%d", baseName, randomNum)
uniqueName(prefix, command, randomNum) ==
    (IF prefix = EmptyStr THEN DetectedPrefix ELSE prefix)
        \o <<45>> \o cmdPart(command) \o <<45>> \o Decimal(randomNum)

\* the loop bound of createUniqueSessionWithEnv
MaxAttempts == 100

(***************************************************************************)
(* State                                                                   *)
(***************************************************************************)
VARIABLES
    sessions,         \* the tmux server: live session name -> raw pane content
    createdSessions,  \* the registry of tmux_command.go:38
    pc,               \* where the running tool handler stands ("idle": none)
    call,             \* the arguments of the running tool call
    loc,              \* the local variables of the running handler
    token,            \* the Hash of the last snapshot a result gave the caller
    fresh,            \* the session of that snapshot while its content has not
                      \* changed since, else the empty name
    hashOf,           \* calculateHash of every content of Contents, computed once
    log,              \* the backend calls the running handler has issued
    ret,              \* the result of the last finished call
    createdSessionsMu,  \* the mutex of tmux_command.go:39: its holder, or 0
    creators,         \* the concurrent calls of createUniqueSession, see below
    waiter,           \* the call of waitForStability or waitForExpected that
                      \* is followed with its clocks, see below
    bash,             \* the call of BashTool.Handle that is followed, see below
    wrapper           \* the MCPWrapper of cmd/mcpwrapper and its goroutines

vars == <<sessions, createdSessions, pc, call, loc, token, fresh, hashOf, log, ret,
          createdSessionsMu, creators, waiter, bash, wrapper>>

NoCall ==
    [tool |-> "none", prefix |-> EmptyStr, session |-> EmptyStr, hash |-> EmptyStr,
     keys |-> EmptyStr, enter |-> FALSE, expect |-> EmptyStr,
     killOthers |-> FALSE, allowMultiple |-> FALSE, command |-> <<>>]

NoLoc ==
    [name |-> EmptyStr, todo |-> <<>>, attempt |-> 0, lastOutput |-> EmptyStr,
     capName |-> EmptyStr, capOut |-> EmptyStr]

\* shown: the session whose capture showed the sent keys to
\* waitForKeysToAppear, kept until the Enter key is issued
NoLog ==
    [verified |-> EmptyStr, nVerify |-> 0, nKeys |-> 0, nEnter |-> 0,
     killed |-> {}, touched |-> {}, prev |-> "none", enter |-> FALSE, nWaits |-> 0,
     history |-> FALSE, byToken |-> FALSE, spent |-> EmptyStr,
     shown |-> EmptyStr]

\* the log of the next call.  Where history is kept (SpecToken), spent
\* outlives the call: the session on which an action was executed with the
\* token the caller holds
NextLog == [NoLog EXCEPT !.history = log.history, !.spent = log.spent]

NoRet ==
    [tool |-> "none", status |-> "none", name |-> EmptyStr, hash |-> EmptyStr,
     mentions |-> {}, mark |-> "none"]

Put(srv, n, c) == [m \in DOMAIN srv \cup {n} |-> IF m = n THEN c ELSE srv[m]]

Drop(srv, n) == [m \in DOMAIN srv \ {n} |-> srv[m]]

\* the session the token is fresh for once the server is srv2
FreshIn(srv2) ==
    IF fresh \in DOMAIN sessions /\ fresh \in DOMAIN srv2
    THEN IF srv2[fresh] = sessions[fresh] THEN fresh ELSE EmptyStr
    ELSE EmptyStr

\* what a query of the backend is made against: the sessions, or a failure
Backend == {sessions, Failing}

Init ==
    /\ sessions = <<>>
    /\ createdSessions = {}
    /\ pc = "idle"
    /\ call = NoCall
    /\ loc = NoLoc
    /\ token = EmptyStr
    /\ fresh = EmptyStr
    /\ hashOf = [c \in Contents |-> calculateHash(c)]
    /\ log = NoLog
    /\ ret = NoRet
    /\ createdSessionsMu = 0
    /\ creators = <<>>
    /\ waiter = <<>>
    /\ bash = <<>>
    /\ wrapper = <<>>

(***************************************************************************)
(* The programs in the sessions and the other tmux clients                 *)
(***************************************************************************)
Handler ==
    /\ pc # "returned"
    /\ UNCHANGED <<pc, call, loc, token, hashOf, log, ret, createdSessions>>
    /\ UNCHANGED <<createdSessionsMu, creators, waiter, bash, wrapper>>

\* a program prints a byte
EnvOutput ==
    \E n \in DOMAIN sessions :
        /\ Len(sessions[n]) < MaxLen
        /\ sessions' = [sessions EXCEPT ![n] = @ \o OutText]
        /\ fresh' = FreshIn(sessions')
        /\ Handler

\* a program clears its pane
EnvClear ==
    \E n \in DOMAIN sessions :
        /\ sessions[n] # EmptyStr
        /\ sessions' = [sessions EXCEPT ![n] = EmptyStr]
        /\ fresh' = FreshIn(sessions')
        /\ Handler

\* the program of a session exits, or another client kills the session
EnvExit ==
    \E n \in DOMAIN sessions :
        /\ sessions' = Drop(sessions, n)
        /\ fresh' = FreshIn(sessions')
        /\ Handler

\* another tmux client creates a session
EnvNewSession ==
    \E n \in ExtNames \ DOMAIN sessions :
        /\ Cardinality(DOMAIN sessions) < MaxSessions
        /\ sessions' = Put(sessions, n, EmptyStr)
        /\ fresh' = FreshIn(sessions')
        /\ Handler

(***************************************************************************)
(* Steps shared by the handlers                                            *)
(***************************************************************************)
Quiet == UNCHANGED <<sessions, createdSessions, fresh>>

\* the arguments the handler still reads once it stands at p; the others are
\* dropped from the state
Live(c, p) ==
    LET resolving == {"ns_killlist", "ns_kill", "ns_check", "ns_create"}
        verifying == {"kill_verify", "skc_verify", "hwe_verify"}
        typing == {"skc_keys", "hwe_keys"}
        c1 == IF p \in resolving THEN c
              ELSE [c EXCEPT !.prefix = EmptyStr, !.session = EmptyStr,
                                !.killOthers = FALSE, !.allowMultiple = FALSE]
        c2 == IF p \in resolving \cup verifying \cup {"whc"} THEN c1
              ELSE [c1 EXCEPT !.hash = EmptyStr]
        c3 == IF p \in resolving \cup verifying \cup typing \cup {"wka", "wka_pane"}
              THEN c2 ELSE [c2 EXCEPT !.keys = EmptyStr]
        c4 == IF p \in resolving \cup verifying \cup typing \cup {"wka", "wka_pane"}
              THEN c3 ELSE [c3 EXCEPT !.enter = FALSE]
    IN  IF p \in {"wfs", "wfs_pane", "hwe_enter", "at_exists", "kill_kill"}
        THEN [c4 EXCEPT !.expect = EmptyStr] ELSE c4

\* the places of the polling loops: waitForKeysToAppear, waitForStability,
\* waitForExpected, waitForHashChange
WaitLoops ==
    {{"wka", "wka_pane"}, {"wfs", "wfs_pane"}, {"wfe", "wfe_pane", "wfe_cursor"}, {"whc"}}

\* going on at p the handler calls one of the polling waits
EntersWait(p) == \E loop \in WaitLoops : p \in loop /\ pc \notin loop

\* the handler of call c goes on at p
GotoC(c, p, l, g) ==
    /\ pc' = p
    /\ call' = Live(c, p)
    /\ loc' = l
    /\ log' = IF EntersWait(p) THEN [g EXCEPT !.nWaits = @ + 1] ELSE g
    /\ UNCHANGED <<token, hashOf, ret, createdSessionsMu, creators, waiter, bash, wrapper>>

Goto(p, l, g) == GotoC(call, p, l, g)

\* the handler of call c returns an error whose text names the hashes of
\* mentions
FailM(c, status, g, mentions) ==
    /\ pc' = "returned"
    /\ ret' = [tool |-> c.tool, status |-> status, name |-> loc.name, hash |-> EmptyStr,
               mentions |-> mentions, mark |-> "none"]
    /\ call' = NoCall
    /\ loc' = NoLoc
    /\ log' = g
    /\ UNCHANGED <<token, hashOf, createdSessionsMu, creators, waiter, bash, wrapper>>

\* the hashes named in the text "session state has changed. Please capture
\* current output first ..." (send_keys_common.go:120): the text is fixed
stateChangedText(expectedHash, currentHash) == {}

\* the handler of call c returns an error
FailC(c, status, g) ==
    /\ pc' = "returned"
    /\ ret' = [tool |-> c.tool, status |-> status, name |-> loc.name, hash |-> EmptyStr,
               mentions |-> {}, mark |-> "none"]
    /\ call' = NoCall
    /\ loc' = NoLoc
    /\ log' = g
    /\ UNCHANGED <<token, hashOf, createdSessionsMu, creators, waiter, bash, wrapper>>

Fail(status, g) == FailC(call, status, g)

\* Mutant of Succeed: the Hash of the result is taken of the output without
\* its trailing newlines
SucceedTrimmed(sname, raw, g) ==
    LET keep == {i \in 0..Len(raw) : \A j \in (i + 1)..Len(raw) : raw[j] = NL}
        cut == SubSeq(raw, 1, CHOOSE i \in keep : \A j \in keep : i <= j)
    IN  /\ pc' = "returned"
        /\ ret' = [tool |-> call.tool, status |-> "ok", name |-> sname, hash |-> hashOf[cut],
                   mentions |-> {}, mark |-> "none"]
        /\ token' = hashOf[cut]
        /\ fresh' = IF sname \in DOMAIN sessions' /\ sessions'[sname] = raw
                  THEN sname ELSE EmptyStr
        /\ call' = NoCall
        /\ loc' = NoLoc
        /\ log' = [g EXCEPT !.spent = EmptyStr]
        /\ UNCHANGED <<hashOf, createdSessionsMu, creators, waiter, bash, wrapper>>

\* the handler returns a result that shows the snapshot (sname, raw)
Succeed(sname, raw, g) ==
    /\ pc' = "returned"
    /\ ret' = [tool |-> call.tool, status |-> "ok", name |-> sname, hash |-> hashOf[raw],
               mentions |-> {}, mark |-> "none"]
    /\ token' = hashOf[raw]
    /\ fresh' = IF sname \in DOMAIN sessions' /\ sessions'[sname] = raw
              THEN sname ELSE EmptyStr
    /\ call' = NoCall
    /\ loc' = NoLoc
    /\ log' = [g EXCEPT !.spent = EmptyStr]
    /\ UNCHANGED <<hashOf, createdSessionsMu, creators, waiter, bash, wrapper>>

\* the handler returns a result that shows the snapshot (sname, raw) with a
\* remark on its Hash
SucceedMarked(sname, raw, g, mark) ==
    /\ pc' = "returned"
    /\ ret' = [tool |-> call.tool, status |-> "ok", name |-> sname, hash |-> hashOf[raw],
               mentions |-> {}, mark |-> mark]
    /\ token' = hashOf[raw]
    /\ fresh' = IF sname \in DOMAIN sessions' /\ sessions'[sname] = raw
              THEN sname ELSE EmptyStr
    /\ call' = NoCall
    /\ loc' = NoLoc
    /\ log' = [g EXCEPT !.spent = EmptyStr]
    /\ UNCHANGED <<hashOf, createdSessionsMu, creators, waiter, bash, wrapper>>

\* the handler returns a result without a snapshot
Done(sname, g) ==
    /\ pc' = "returned"
    /\ ret' = [tool |-> call.tool, status |-> "ok", name |-> sname, hash |-> EmptyStr,
               mentions |-> {}, mark |-> "none"]
    /\ call' = NoCall
    /\ loc' = NoLoc
    /\ log' = g
    /\ UNCHANGED <<token, hashOf, createdSessionsMu, creators, waiter, bash, wrapper>>

Issued(kind, n) == [log EXCEPT !.prev = kind, !.touched = @ \cup {n}]

Listed == [log EXCEPT !.prev = "list"]

\* a read one of the waiting loops makes
Polled == [log EXCEPT !.prev = "poll"]

\* Mutant of verifySessionHash: the result of the comparison is dropped
verifySessionHashUncompared(nextPc) ==
    /\ Quiet
    /\ IF loc.name \notin DOMAIN sessions
       THEN Fail("verify_failed",
                 [Issued("capture", loc.name) EXCEPT !.nVerify = @ + 1])
       ELSE Goto(nextPc, loc,
                 [Issued("verify_ok", loc.name) EXCEPT !.nVerify = @ + 1,
                                                        !.verified = loc.name,
                                                        !.byToken = log.history /\ call.hash = token])

\* verifySessionHash (send_keys_common.go:112), then the caller's return on error
verifySessionHash(nextPc) ==
    /\ Quiet
    /\ IF loc.name \notin DOMAIN sessions
       THEN Fail("verify_failed",
                 [Issued("capture", loc.name) EXCEPT !.nVerify = @ + 1])
       ELSE IF hashOf[sessions[loc.name]] # call.hash
       THEN FailM(call, "state_changed",
                  [Issued("verify_bad", loc.name) EXCEPT !.nVerify = @ + 1],
                  stateChangedText(call.hash, hashOf[sessions[loc.name]]))
       ELSE Goto(nextPc, loc,
                 [Issued("verify_ok", loc.name) EXCEPT !.nVerify = @ + 1,
                                                        !.verified = loc.name,
                                                        !.byToken = log.history /\ call.hash = token])

\* tmux send-keys -t name payload; nextPc "return" ends the handler
sendKeysBackend(payload, field, kind, nextPc) ==
    IF loc.name \notin DOMAIN sessions
    THEN /\ Quiet
         /\ Fail(IF kind = "keys" THEN "send_failed" ELSE "enter_failed",
                 [Issued(kind, loc.name) EXCEPT ![field] = @ + 1, !.shown = EmptyStr])
    ELSE /\ Len(sessions[loc.name]) + Len(payload) <= MaxLen
         /\ sessions' = [sessions EXCEPT ![loc.name] = @ \o payload]
         /\ fresh' = FreshIn(sessions')
         /\ UNCHANGED createdSessions
         /\ LET g == [Issued(kind, loc.name)
                         EXCEPT ![field] = @ + 1,
                                !.spent = IF log.byToken THEN loc.name ELSE @,
                                !.shown = EmptyStr]
            IN  IF nextPc = "return" THEN Done(loc.name, g) ELSE Goto(nextPc, loc, g)

\* capture (client.go:46), first half: resolveSession(ctx, opts.Prefix, "")
captureResolve(prefix, failPc, nextPc) ==
    \E srv \in Backend :
        LET res == resolveSession(srv, prefix, EmptyStr)
        IN  /\ Quiet
            /\ IF res.err # "none"
               THEN Goto(failPc, loc, Polled)
               ELSE Goto(nextPc, [loc EXCEPT !.capName = res.name], Polled)

(***************************************************************************)
(* The caller starts a tool call                                           *)
(***************************************************************************)
\* every session name of the model
AllNames ==
    ExtNames \cup {uniqueName(EmptyStr, c, r) : c \in CommandArgs, r \in RandNums}

SessionArgs == {EmptyStr} \cup AllNames

\* what a caller can present as hash: nothing, the hash of its last snapshot,
\* or the hash of an empty pane
HashArgs == {EmptyStr, token, hashOf[EmptyStr]}

\* the arguments of a call to SessionTool tools
SessionCall(tool, p, s) == [NoCall EXCEPT !.tool = tool, !.prefix = p, !.session = s]

SendCall(tool, p, s, h, k, e, ex) ==
    [SessionCall(tool, p, s) EXCEPT !.hash = h, !.keys = k, !.enter = e, !.expect = ex]

Start(c, p) ==
    /\ pc = "idle"
    /\ pc' = p
    /\ call' = c
    /\ loc' = NoLoc
    /\ log' = NextLog
    /\ UNCHANGED <<sessions, createdSessions, token, fresh, hashOf, ret>>
    /\ UNCHANGED <<createdSessionsMu, creators, waiter, bash, wrapper>>

InvokeNewSession ==
    \E p \in {EmptyStr}, c \in CommandArgs, ex \in ExpectArgs,
       ko \in BOOLEAN, am \in BOOLEAN :
        Start([NoCall EXCEPT !.tool = "new_session", !.prefix = p, !.command = c,
                             !.expect = ex, !.killOthers = ko, !.allowMultiple = am],
              IF ko THEN "ns_killlist" ELSE IF am THEN "ns_create" ELSE "ns_check")

(***************************************************************************)
(* CaptureTool.Handle (part_008:25); the hash of the call is the argument  *)
(* wait_for_change                                                         *)
(***************************************************************************)
\* the call and t.resolveSession(ctx)
CaptureHandleResolve ==
    /\ pc = "idle"
    /\ Quiet
    /\ \E srv \in Backend, p \in PrefixArgs, s \in SessionArgs, h \in HashArgs :
           LET c == [SessionCall("capture", p, s) EXCEPT !.hash = h]
               res == resolveSession(srv, p, s)
           IN  IF res.err # "none" THEN FailC(c, res.err, Listed)
               ELSE GotoC(c, IF h # EmptyStr THEN "whc" ELSE "cap_pane",
                          [loc EXCEPT !.name = res.name], Listed)

CaptureHandlePane ==
    /\ pc = "cap_pane"
    /\ UNCHANGED <<sessions, createdSessions>>
    /\ IF loc.name \notin DOMAIN sessions
       THEN Fail("capture_failed", Issued("capture", loc.name)) /\ UNCHANGED fresh
       ELSE Succeed(loc.name, sessions[loc.name], Issued("capture", loc.name))

\* CaptureTool.waitForHashChange (part_008:57), case <-timeout: the current
\* capture is returned as unchanged
waitForHashChangeTimeout ==
    /\ pc = "whc"
    /\ UNCHANGED <<sessions, createdSessions>>
    /\ IF loc.name \notin DOMAIN sessions
       THEN Fail("capture_failed", Issued("capture", loc.name)) /\ UNCHANGED fresh
       ELSE SucceedMarked(loc.name, sessions[loc.name], Issued("capture", loc.name),
                          "unchanged")

\* case <-ticker.C: a capture that fails is skipped, a capture with another
\* hash is returned as changed
waitForHashChangeTick ==
    /\ pc = "whc"
    /\ UNCHANGED <<sessions, createdSessions>>
    /\ IF loc.name \notin DOMAIN sessions
       THEN Goto("whc", loc, Polled) /\ UNCHANGED fresh
       ELSE IF hashOf[sessions[loc.name]] # call.hash
       THEN SucceedMarked(loc.name, sessions[loc.name], Polled, "changed")
       ELSE Goto("whc", loc, Polled) /\ UNCHANGED fresh

(***************************************************************************)
(* KillTool.Handle (part_004:19)                                           *)
(***************************************************************************)
\* the call, the test of t.Hash and t.resolveSession(ctx)
KillHandleResolve ==
    /\ pc = "idle"
    /\ Quiet
    /\ \E srv \in Backend, p \in PrefixArgs, s \in SessionArgs, h \in HashArgs :
           LET c == [SessionCall("kill", p, s) EXCEPT !.hash = h]
               res == resolveSession(srv, p, s)
           IN  IF h = EmptyStr THEN FailC(c, "hash_required", log)
               ELSE IF res.err # "none" THEN FailC(c, res.err, Listed)
               ELSE GotoC(c, "kill_verify", [loc EXCEPT !.name = res.name], Listed)

\* Mutant of KillHandleVerify: the hash is verified against the empty pane
KillHandleVerifyEmpty ==
    /\ pc = "kill_verify"
    /\ Quiet
    /\ IF call.hash # hashOf[EmptyStr]
       THEN Fail("state_changed",
                 [Issued("verify_bad", loc.name) EXCEPT !.nVerify = @ + 1])
       ELSE Goto("kill_kill", loc,
                 [Issued("verify_ok", loc.name) EXCEPT !.nVerify = @ + 1,
                                                        !.verified = loc.name])

KillHandleVerify ==
    /\ pc = "kill_verify"
    /\ verifySessionHash("kill_kill")

\* killSession (client.go:210) and the return of KillTool.Handle
KillHandleKill ==
    /\ pc = "kill_kill"
    /\ UNCHANGED createdSessions
    /\ LET g == [Issued("kill", loc.name) EXCEPT !.killed = @ \cup {loc.name}]
       IN  IF loc.name \notin DOMAIN sessions
           THEN UNCHANGED <<sessions, fresh>> /\ Fail("kill_failed", g)
           ELSE /\ sessions' = Drop(sessions, loc.name)
                /\ fresh' = FreshIn(sessions')
                /\ Done(loc.name, g)

(***************************************************************************)
(* SendKeysTool.Handle (tmux_send_keys.go:25) and SendControlKeysTool.Handle *)
(* (tmux_send_control_keys.go:24)                                          *)
(***************************************************************************)
\* Mutant of validateInput: the hash is not asked for
validateInputKeysOnly(c) ==
    IF c.keys = EmptyStr THEN "keys_required" ELSE "none"

\* the checks sendKeysCommon and validateInput make before any backend call
validateInput(c) ==
    IF c.hash = EmptyStr THEN "hash_required"
    ELSE IF c.keys = EmptyStr THEN "keys_required"
    ELSE "none"

\* the call, t.resolveSession(ctx) and the checks made before any other
\* backend call
SendKeysHandle ==
    /\ pc = "idle"
    /\ Quiet
    /\ \E srv \in Backend, p \in PrefixArgs, s \in SessionArgs, h \in HashArgs, k \in KeysArgs,
          e \in BOOLEAN, ex \in ExpectArgs :
           LET c == SendCall("send_keys", p, s, h, k, e, ex)
               res == resolveSession(srv, p, s)
           IN  IF res.err # "none" THEN FailC(c, res.err, Listed)
               ELSE IF validateInput(c) # "none"
               THEN FailC(c, validateInput(c), Listed)
               ELSE GotoC(c, IF ex # EmptyStr THEN "skc_verify" ELSE "hwe_verify",
                          [loc EXCEPT !.name = res.name],
                          [Listed EXCEPT !.enter = e])

SendControlKeysHandle ==
    /\ pc = "idle"
    /\ Quiet
    /\ \E srv \in Backend, p \in PrefixArgs, s \in SessionArgs, h \in HashArgs, k \in KeysArgs,
          e \in BOOLEAN, ex \in ExpectArgs :
           LET c == SendCall("send_control_keys", p, s, h, k, e, ex)
               res == resolveSession(srv, p, s)
           IN  IF res.err # "none" THEN FailC(c, res.err, Listed)
               ELSE IF validateInput(c) # "none"
               THEN FailC(c, validateInput(c), Listed)
               ELSE GotoC(c, "skc_verify", [loc EXCEPT !.name = res.name],
                          [Listed EXCEPT !.enter = e])

\* Mutant of sendKeysCommonVerify: the keys are sent without verification
sendKeysCommonUnverified ==
    /\ pc = "skc_verify"
    /\ Quiet
    /\ Goto("skc_keys", loc, log)

\* sendKeysCommon (send_keys_common.go:60)
sendKeysCommonVerify ==
    /\ pc = "skc_verify"
    /\ verifySessionHash("skc_keys")

\* Mutant of sendKeysToSessionKeys: sendKeysCommon waits for the keys to
\* appear before it goes on
sendKeysToSessionKeysThenAppear ==
    /\ pc = "skc_keys"
    /\ sendKeysBackend(call.keys, "nKeys", "keys", "wka")

\* Mutant of sendKeysToSessionKeys: opts.Enter is not looked at
sendKeysToSessionKeysNoEnter ==
    /\ pc = "skc_keys"
    /\ sendKeysBackend(call.keys, "nKeys", "keys",
                       IF call.expect # EmptyStr THEN "wfe" ELSE "return")

\* sendKeysToSession (send_keys_common.go:29): the keys
sendKeysToSessionKeys ==
    /\ pc = "skc_keys"
    /\ sendKeysBackend(call.keys, "nKeys", "keys",
                       IF call.enter THEN "skc_enter"
                       ELSE IF call.expect # EmptyStr THEN "wfe" ELSE "return")

\* Mutant of sendKeysToSessionEnter: without expect sendKeysCommon waits for
\* the output to settle
sendKeysToSessionEnterThenStable ==
    /\ pc = "skc_enter"
    /\ sendKeysBackend(<<NL>>, "nEnter", "enter",
                       IF call.expect # EmptyStr THEN "wfe" ELSE "wfs")

\* sendKeysToSession: the separate Enter
sendKeysToSessionEnter ==
    /\ pc = "skc_enter"
    /\ sendKeysBackend(<<NL>>, "nEnter", "enter",
                       IF call.expect # EmptyStr THEN "wfe" ELSE "return")

\* SendKeysTool.handleWithoutExpect (tmux_send_keys.go:60)
handleWithoutExpectVerify ==
    /\ pc = "hwe_verify"
    /\ verifySessionHash("hwe_keys")

handleWithoutExpectKeys ==
    /\ pc = "hwe_keys"
    /\ sendKeysBackend(call.keys, "nKeys", "keys", "wka")

handleWithoutExpectEnter ==
    /\ pc = "hwe_enter"
    /\ sendKeysBackend(<<NL>>, "nEnter", "enter", "wfs")

\* SendKeysTool.waitForKeysToAppear (tmux_send_keys.go:118): the deadline
waitForKeysToAppearTimeout ==
    /\ pc = "wka"
    /\ Quiet
    /\ Fail("keys_timeout", log)

\* the ticker: capture(ctx, captureOptions{Prefix: sessionName})
waitForKeysToAppearTick ==
    /\ pc = "wka"
    /\ captureResolve(loc.name, "wka", "wka_pane")

waitForKeysToAppearPane ==
    /\ pc = "wka_pane"
    /\ Quiet
    /\ LET done == [loc EXCEPT !.capName = EmptyStr]
       IN  IF loc.capName \notin DOMAIN sessions THEN Goto("wka", done, Polled)
           ELSE IF Contains(formatOutput(sessions[loc.capName]), call.keys)
           THEN Goto(IF call.enter THEN "hwe_enter" ELSE "wfs", done,
                     [Polled EXCEPT !.shown = IF call.enter THEN loc.capName ELSE @])
           ELSE Goto("wka", done, Polled)

(***************************************************************************)
(* waitForStability (client.go:248).  Time is not measured here: the       *)
(* deadline may have passed at any turn of the loop, and the test          *)
(* time.Since(lastChange) >= stabilityThreshold may go either way.         *)
(***************************************************************************)
\* case <-ctx.Done(): the capture made with the expired context fails, so
\* result is nil
waitForStabilityDone ==
    /\ pc = "wfs"
    /\ Quiet
    /\ Fail("wait_error", log)

waitForStabilityTick ==
    /\ pc = "wfs"
    /\ captureResolve(loc.name, "wfs", "wfs_pane")

waitForStabilityPane ==
    /\ pc = "wfs_pane"
    /\ UNCHANGED <<sessions, createdSessions>>
    /\ LET g == Polled
           done == [loc EXCEPT !.capName = EmptyStr]
       IN  IF loc.capName \notin DOMAIN sessions
           THEN Goto("wfs", done, g) /\ UNCHANGED fresh
           ELSE IF formatOutput(sessions[loc.capName]) # loc.lastOutput
           THEN /\ Goto("wfs", [done EXCEPT !.lastOutput =
                                      formatOutput(sessions[loc.capName])], g)
                /\ UNCHANGED fresh
           ELSE \E elapsed \in BOOLEAN :
                    IF ~elapsed THEN Goto("wfs", done, g) /\ UNCHANGED fresh
                    ELSE IF call.tool = "new_session"
                    THEN Done(loc.name, g) /\ UNCHANGED fresh
                    ELSE Succeed(loc.capName, sessions[loc.capName], g)

(***************************************************************************)
(* waitForExpected (client.go:280) over captureWithCursor (client.go:67)   *)
(***************************************************************************)
waitForExpectedDone ==
    /\ pc = "wfe"
    /\ Quiet
    /\ Fail("wait_error", log)

waitForExpectedTick ==
    /\ pc = "wfe"
    /\ captureResolve(loc.name, "wfe", "wfe_pane")

\* captureWithCursor: capture-pane
captureWithCursorPane ==
    /\ pc = "wfe_pane"
    /\ Quiet
    /\ IF loc.capName \notin DOMAIN sessions
       THEN Goto("wfe", [loc EXCEPT !.capName = EmptyStr], Polled)
       ELSE Goto("wfe_cursor", [loc EXCEPT !.capOut = sessions[loc.capName]], Polled)

\* lines[cursorY] of the captured output
cursorLineOf(output, cursorY) ==
    IF cursorY >= 0 /\ cursorY < Len(SplitLines(output))
    THEN SplitLines(output)[cursorY + 1]
    ELSE EmptyStr

\* captureWithCursor: display-message, and the rest of the tick
captureWithCursorCursor ==
    /\ pc = "wfe_cursor"
    /\ UNCHANGED <<sessions, createdSessions>>
    /\ LET g == Polled
           done == [loc EXCEPT !.capOut = EmptyStr, !.capName = EmptyStr]
       IN  IF loc.capName \notin DOMAIN sessions
           THEN Goto("wfe", done, g) /\ UNCHANGED fresh
           ELSE IF Contains(cursorLineOf(loc.capOut, CursorY(sessions[loc.capName])),
                            call.expect)
           THEN IF call.tool = "new_session"
                THEN Done(loc.name, g) /\ UNCHANGED fresh
                ELSE Succeed(loc.capName, loc.capOut, g)
           ELSE IF formatOutput(loc.capOut) # loc.lastOutput
           THEN /\ Goto("wfe", [done EXCEPT !.lastOutput = formatOutput(loc.capOut)], g)
                /\ UNCHANGED fresh
           ELSE \E stalled \in BOOLEAN :
                    /\ UNCHANGED fresh
                    /\ IF stalled THEN Fail("wait_error", g) ELSE Goto("wfe", done, g)

(***************************************************************************)
(* NewSessionTool.Handle (part_009:25)                                     *)
(***************************************************************************)
EffectivePrefix == IF call.prefix = EmptyStr THEN DetectedPrefix ELSE call.prefix

AfterKillOthers == IF call.allowMultiple THEN "ns_create" ELSE "ns_check"

\* if t.KillOthers: findSessionsByPrefix
NewSessionKillList ==
    /\ pc = "ns_killlist"
    /\ Quiet
    /\ \E srv \in Backend :
           LET found == findSessionsByPrefix(srv, EffectivePrefix)
           IN  Goto(IF found = <<>> THEN AfterKillOthers ELSE "ns_kill",
                    [loc EXCEPT !.todo = found], Listed)

\* killSession(ctx, session) for the next session of the list; errors are ignored
NewSessionKillOthers ==
    /\ pc = "ns_kill"
    /\ UNCHANGED createdSessions
    /\ LET victim == Head(loc.todo)
       IN  /\ sessions' = IF victim \in DOMAIN sessions THEN Drop(sessions, victim)
                          ELSE sessions
           /\ fresh' = FreshIn(sessions')
           /\ Goto(IF Tail(loc.todo) = <<>> THEN AfterKillOthers ELSE "ns_kill",
                   [loc EXCEPT !.todo = Tail(@)],
                   [Issued("kill", victim) EXCEPT !.killed = @ \cup {victim}])

\* if !t.AllowMultiple: findSessionsByPrefix
NewSessionCheckExisting ==
    /\ pc = "ns_check"
    /\ Quiet
    /\ \E srv \in Backend :
           IF findSessionsByPrefix(srv, EffectivePrefix) # <<>>
           THEN Fail("already_exists", Listed)
           ELSE Goto("ns_create", loc, Listed)

\* The loop of createUniqueSessionWithEnv (part_013:49) with newSession
\* (tmux_command.go:41).  A turn whose name is in the registry makes no
\* backend call, so one step is: skipped such turns, then a turn that
\* reaches the backend, or the end of the loop.
createUniqueSessionAttempt ==
    /\ pc = "ns_create"
    /\ LET NameOf(r) == uniqueName(call.prefix, call.command, r)
           known == {r \in RandNums : NameOf(r) \in createdSessions}
           waitPc == IF call.expect # EmptyStr THEN "wfe" ELSE "wfs"
       IN  \/ /\ known # {}
              /\ Quiet
              /\ Fail("exhausted", log)
           \/ \E randomNum \in RandNums \ known,
                 skipped \in IF known = {} THEN {0}
                             ELSE 0..(MaxAttempts - 1 - loc.attempt) :
                 LET used == loc.attempt + skipped + 1
                 IN  IF NameOf(randomNum) \in DOMAIN sessions
                     THEN /\ Quiet
                          /\ IF used = MaxAttempts
                             THEN Fail("exhausted", Issued("new", NameOf(randomNum)))
                             ELSE Goto("ns_create", [loc EXCEPT !.attempt = used],
                                       Issued("new", NameOf(randomNum)))
                     ELSE /\ Cardinality(DOMAIN sessions) < MaxSessions
                          /\ sessions' = Put(sessions, NameOf(randomNum), EmptyStr)
                          /\ createdSessions' = createdSessions \cup {NameOf(randomNum)}
                          /\ fresh' = FreshIn(sessions')
                          /\ Goto(waitPc, [loc EXCEPT !.name = NameOf(randomNum)],
                                  Issued("new", NameOf(randomNum)))

(***************************************************************************)
(* AttachTool.Handle (part_014:156)                                        *)
(***************************************************************************)
AttachHandleResolve ==
    /\ pc = "idle"
    /\ Quiet
    /\ \E srv \in Backend, p \in PrefixArgs, s \in SessionArgs :
           LET c == SessionCall("attach", p, s)
               res == resolveSession(srv, p, s)
           IN  IF res.err # "none" THEN FailC(c, res.err, Listed)
               ELSE GotoC(c, "at_exists", [loc EXCEPT !.name = res.name], Listed)

\* sessionExists (tmux_bash.go:496), then the terminal program is started
AttachHandleOpen ==
    /\ pc = "at_exists"
    /\ Quiet
    /\ IF loc.name \notin DOMAIN sessions
       THEN Fail("not_exist", Issued("has", loc.name))
       ELSE \E opened \in BOOLEAN :
                IF opened THEN Done(loc.name, Issued("has", loc.name))
                ELSE Fail("open_failed", Issued("has", loc.name))

(***************************************************************************)
(* The specification                                                       *)
(***************************************************************************)
\* the caller has read the result
ResultDelivered ==
    /\ pc = "returned"
    /\ pc' = "idle"
    /\ ret' = NoRet
    /\ log' = NextLog
    /\ UNCHANGED <<sessions, createdSessions, call, loc, token, fresh, hashOf>>
    /\ UNCHANGED <<createdSessionsMu, creators, waiter, bash, wrapper>>

Next ==
    \/ EnvOutput
    \/ EnvClear
    \/ EnvExit
    \/ EnvNewSession
    \/ InvokeNewSession
    \/ CaptureHandleResolve
    \/ CaptureHandlePane
    \/ KillHandleResolve
    \/ KillHandleVerify
    \/ KillHandleKill
    \/ SendKeysHandle
    \/ SendControlKeysHandle
    \/ sendKeysCommonVerify
    \/ sendKeysToSessionKeys
    \/ sendKeysToSessionEnter
    \/ handleWithoutExpectVerify
    \/ handleWithoutExpectKeys
    \/ handleWithoutExpectEnter
    \/ waitForHashChangeTimeout
    \/ waitForHashChangeTick
    \/ waitForKeysToAppearTimeout
    \/ waitForKeysToAppearTick
    \/ waitForKeysToAppearPane
    \/ waitForStabilityDone
    \/ waitForStabilityTick
    \/ waitForStabilityPane
    \/ waitForExpectedDone
    \/ waitForExpectedTick
    \/ captureWithCursorPane
    \/ captureWithCursorCursor
    \/ NewSessionKillList
    \/ NewSessionKillOthers
    \/ NewSessionCheckExisting
    \/ createUniqueSessionAttempt
    \/ AttachHandleResolve
    \/ AttachHandleOpen
    \/ ResultDelivered

Spec == Init /\ [][Next]_vars

TypeOK ==
    /\ \A n \in DOMAIN sessions : sessions[n] \in Contents
    /\ Cardinality(DOMAIN sessions) <= MaxSessions
    /\ createdSessions \subseteq {uniqueName(EmptyStr, c, r) : c \in CommandArgs, r \in RandNums}
    /\ fresh \in {EmptyStr} \cup DOMAIN sessions
    /\ log.nKeys \in 0..1 /\ log.nEnter \in 0..1 /\ log.nVerify \in 0..1

(***************************************************************************)
(* Concurrent calls of createUniqueSession (part_013:16) in one process,   *)
(* all with the same prefix and command.  Each call runs the loop of       *)
(* createUniqueSessionWithEnv; newSession (tmux_command.go:41) holds       *)
(* createdSessionsMu from its registry check to its return.                *)
(***************************************************************************)
\* the number of concurrent calls
NumCreators == 2

\* the number of values rng.Intn(9000) + 1000 takes for these calls
MaxSuffixes == 2

Creators == 1..NumCreators

Suffixes == 1000..(1000 + MaxSuffixes - 1)

\* the names the calls can come to
CreatorNames == {uniqueName(EmptyStr, <<>>, r) : r \in Suffixes}

\* a call before its first turn of the loop
NewCreator == [pc |-> "loop", i |-> 0, sessionName |-> EmptyStr, made |-> 0]

InitCreate ==
    /\ sessions = <<>>
    /\ createdSessions = {}
    /\ pc = "idle"
    /\ call = NoCall
    /\ loc = NoLoc
    /\ token = EmptyStr
    /\ fresh = EmptyStr
    /\ hashOf = <<>>
    /\ log = NoLog
    /\ ret = NoRet
    /\ createdSessionsMu = 0
    /\ creators = [c \in Creators |-> NewCreator]
    /\ waiter = <<>>
    /\ bash = <<>>
    /\ wrapper = <<>>

CreatorFrame == UNCHANGED <<pc, call, loc, token, fresh, hashOf, log, ret, waiter, bash, wrapper>>

\* newSession of call c has returned an error: the loop goes to its next turn
NextTurn(c) ==
    [creators EXCEPT ![c].pc = "loop", ![c].i = @ + 1, ![c].sessionName = EmptyStr]

\* Mutant of createUniqueSessionTurn: newSession does not look into the
\* registry
createUniqueSessionTurnUnchecked(c) ==
    /\ creators[c].pc = "loop"
    /\ creators[c].i < MaxAttempts
    /\ createdSessionsMu = 0
    /\ \E randomNum \in Suffixes :
           /\ creators' = [creators EXCEPT
                              ![c].pc = "locked",
                              ![c].sessionName = uniqueName(EmptyStr, <<>>, randomNum)]
           /\ createdSessionsMu' = c
    /\ UNCHANGED <<sessions, createdSessions>>
    /\ CreatorFrame

\* One turn of the loop up to the registry check of newSession: the name is
\* drawn, the mutex is taken, and a name in the registry is refused
createUniqueSessionTurn(c) ==
    /\ creators[c].pc = "loop"
    /\ creators[c].i < MaxAttempts
    /\ createdSessionsMu = 0
    /\ \E randomNum \in Suffixes :
           LET sessionName == uniqueName(EmptyStr, <<>>, randomNum)
           IN  IF sessionName \in createdSessions
               THEN /\ creators' = NextTurn(c)
                    /\ UNCHANGED createdSessionsMu
               ELSE /\ creators' = [creators EXCEPT ![c].pc = "locked",
                                                    ![c].sessionName = sessionName]
                    /\ createdSessionsMu' = c
    /\ UNCHANGED <<sessions, createdSessions>>
    /\ CreatorFrame

\* Mutant of newSessionBackend: the loop goes on after a session was created
newSessionBackendGoesOn(c) ==
    /\ creators[c].pc = "locked"
    /\ createdSessionsMu = c
    /\ createdSessionsMu' = 0
    /\ CreatorFrame
    /\ IF creators[c].sessionName \in DOMAIN sessions
       THEN /\ creators' = NextTurn(c)
            /\ UNCHANGED <<sessions, createdSessions>>
       ELSE /\ sessions' = Put(sessions, creators[c].sessionName, EmptyStr)
            /\ createdSessions' = createdSessions \cup {creators[c].sessionName}
            /\ creators' = [NextTurn(c) EXCEPT ![c].made = @ + 1]

\* Mutant of newSessionBackend: the name is put into the registry before the
\* answer of tmux is looked at
newSessionBackendRegistersFirst(c) ==
    /\ creators[c].pc = "locked"
    /\ createdSessionsMu = c
    /\ createdSessionsMu' = 0
    /\ CreatorFrame
    /\ createdSessions' = createdSessions \cup {creators[c].sessionName}
    /\ \E srv \in Backend :
           IF srv = Failing \/ creators[c].sessionName \in DOMAIN sessions
           THEN /\ creators' = NextTurn(c)
                /\ UNCHANGED sessions
           ELSE /\ sessions' = Put(sessions, creators[c].sessionName, EmptyStr)
                /\ creators' = [creators EXCEPT ![c].pc = "done",
                                               ![c].i = @ + 1, ![c].made = @ + 1]

\* newSession under the mutex: tmux new-session, which tmux refuses for a
\* live name and which can fail otherwise; the name is put into the registry
\* and returned if it succeeded
newSessionBackend(c) ==
    /\ creators[c].pc = "locked"
    /\ createdSessionsMu = c
    /\ createdSessionsMu' = 0
    /\ CreatorFrame
    /\ \E srv \in Backend :
           IF srv = Failing \/ creators[c].sessionName \in DOMAIN sessions
           THEN /\ creators' = NextTurn(c)
                /\ UNCHANGED <<sessions, createdSessions>>
           ELSE /\ sessions' = Put(sessions, creators[c].sessionName, EmptyStr)
                /\ createdSessions' = createdSessions \cup {creators[c].sessionName}
                /\ creators' = [creators EXCEPT ![c].pc = "done",
                                               ![c].i = @ + 1, ![c].made = @ + 1]

\* Mutant of createUniqueSessionExhausted: the loop is left after one turn
createUniqueSessionExhaustedEarly(c) ==
    /\ creators[c].pc = "loop"
    /\ creators[c].i >= 1
    /\ creators' = [creators EXCEPT ![c].pc = "failed"]
    /\ UNCHANGED <<sessions, createdSessions, createdSessionsMu>>
    /\ CreatorFrame

\* the loop ends: "failed to create unique session after 100 attempts"
createUniqueSessionExhausted(c) ==
    /\ creators[c].pc = "loop"
    /\ creators[c].i = MaxAttempts
    /\ creators' = [creators EXCEPT ![c].pc = "failed"]
    /\ UNCHANGED <<sessions, createdSessions, createdSessionsMu>>
    /\ CreatorFrame

\* a step of call c
CreatorStep(c) ==
    \/ createUniqueSessionTurn(c)
    \/ newSessionBackend(c)
    \/ createUniqueSessionExhausted(c)

\* another tmux client creates a session with one of the names
OtherClientCreates ==
    \E n \in CreatorNames \ DOMAIN sessions :
        /\ sessions' = Put(sessions, n, EmptyStr)
        /\ fresh' = FreshIn(sessions')
        /\ Handler

NextCreate ==
    \/ \E c \in Creators : createUniqueSessionTurn(c)
    \/ \E c \in Creators : newSessionBackend(c)
    \/ \E c \in Creators : createUniqueSessionExhausted(c)
    \/ EnvExit
    \/ OtherClientCreates

SpecCreate == InitCreate /\ [][NextCreate]_vars

\* the scheduler runs every call that can take a step
SpecCreateFair == SpecCreate /\ \A c \in Creators : WF_vars(CreatorStep(c))
(***************************************************************************)
(* Concurrent calls of NewSessionTool.Handle (part_009:25) in one process, *)
(* all with the detected prefix, allow_multiple=false and                  *)
(* kill_others=false: the check for an existing session, then              *)
(* createUniqueSession, then the wait for the output of the new session.   *)
(***************************************************************************)
InitNewSession ==
    /\ sessions = <<>>
    /\ createdSessions = {}
    /\ pc = "idle"
    /\ call = NoCall
    /\ loc = NoLoc
    /\ token = EmptyStr
    /\ fresh = EmptyStr
    /\ hashOf = <<>>
    /\ log = NoLog
    /\ ret = NoRet
    /\ createdSessionsMu = 0
    /\ creators = [c \in Creators |-> [NewCreator EXCEPT !.pc = "check"]]
    /\ waiter = <<>>
    /\ bash = <<>>
    /\ wrapper = <<>>

\* the live sessions whose name starts with the prefix of the calls
WithPrefix(srv) == {n \in DOMAIN srv : n # EmptyStr /\ HasPrefix(n, DetectedPrefix)}

\* if !t.AllowMultiple: findSessionsByPrefix; a listing that fails counts as
\* no session
newSessionCheckExisting(c) ==
    /\ creators[c].pc = "check"
    /\ \E srv \in Backend :
           creators' = [creators EXCEPT ![c].pc =
                           IF findSessionsByPrefix(srv, DetectedPrefix) # <<>>
                           THEN "exists" ELSE "loop"]
    /\ UNCHANGED <<sessions, createdSessions, createdSessionsMu>>
    /\ CreatorFrame

\* waitForStability(ctxWithTimeout, sessionName) after the creation: it
\* returns a result only from a capture of the session
newSessionWait(c) ==
    /\ creators[c].pc = "done"
    /\ creators' = [creators EXCEPT ![c].pc =
                       IF creators[c].sessionName \in DOMAIN sessions
                       THEN "returned" ELSE "wait_failed"]
    /\ UNCHANGED <<sessions, createdSessions, createdSessionsMu>>
    /\ CreatorFrame

NextNewSession ==
    \/ \E c \in Creators : newSessionCheckExisting(c)
    \/ \E c \in Creators : createUniqueSessionTurn(c)
    \/ \E c \in Creators : newSessionBackend(c)
    \/ \E c \in Creators : createUniqueSessionExhausted(c)
    \/ \E c \in Creators : newSessionWait(c)
    \/ EnvExit

SpecNewSession == InitNewSession /\ [][NextNewSession]_vars


(***************************************************************************)
(* waitForStability (client.go:248) and waitForExpected (client.go:280)    *)
(* with time.  Time is counted in units of 100 ms.  The calls a tick makes *)
(* take no time, but the pane can change between them.  The deadline of    *)
(* ctx is the one sendKeysCommon or NewSessionTool.Handle sets when no     *)
(* max_wait is given, or, for any other caller, can pass at any moment.    *)
(***************************************************************************)
\* checkInterval = 200 * time.Millisecond
checkInterval == 2

\* stabilityThreshold = 500 * time.Millisecond
stabilityThreshold == 5

\* noOutputTimeout = 20 (seconds)
noOutputTimeout == 200

\* expectWaitTimeout = 60 (seconds)
expectWaitTimeout == 60

\* the seconds sendKeysCommon gives waitForExpected (send_keys_common.go:69
\* and send_keys_common.go:86-90)
sendKeysCommonMaxWait(MaxWait) ==
    LET defaulted == IF MaxWait = 0 THEN 10 ELSE MaxWait
    IN  IF defaulted = 0 THEN expectWaitTimeout ELSE defaulted

\* the nanoseconds NewSessionTool.Handle gives its wait (part_009:26-29):
\* time.Duration(t.MaxWait) * time.Second, or 10
newSessionMaxWait(MaxWait) ==
    IF MaxWait * 1000000000 = 0 THEN 10 ELSE MaxWait * 1000000000

\* who calls the wait, with max_wait unset; "any" is a caller with a deadline
\* of its own
WaitCallers == {"any", "sendKeysCommon", "NewSessionTool"}

\* the time to the deadline in units of 100 ms; -1: not fixed
DeadlineOf(caller) ==
    IF caller = "sendKeysCommon" THEN sendKeysCommonMaxWait(0) * 10
    ELSE IF caller = "NewSessionTool" THEN newSessionMaxWait(0) \div 100000000
    ELSE -1

\* the session waited for, and the text waited for
WaitName == <<97>>

WaitExpected == KeyText

\* what the pane shows: nothing, a blank, the expected text on the cursor
\* line, the expected text on the line above the cursor, the expected text
\* on the cursor line one line further down
WaitTexts == {EmptyStr, <<SP>>, KeyText, KeyText \o <<NL>>, <<NL>> \o KeyText}

\* the expected text is on the line of the cursor of a pane showing text
OnCursorLine(text) == Contains(cursorLineOf(text, CursorY(text)), WaitExpected)

\* the clocks stop counting where the code no longer tells the values apart
ClockCap(kind) == IF kind = "stability" THEN stabilityThreshold ELSE noOutputTimeout

Later(t, cap) == IF t < cap THEN t + 1 ELSE cap

\* a call at its first select: lastOutput is "", lastChange is now, the ticker
\* has a whole interval to go.  Kept beside the code's variables: age, the
\* time since the call began; sinceOutput, the time since the bytes of the
\* pane last changed; onLineFor, the time the expected text has been on the
\* cursor line without a break; quiet, that the pane has not changed since
\* the call began (followed for the callers with a fixed deadline)
NewWaiter(kind, caller) ==
    [kind |-> kind, caller |-> caller, left |-> DeadlineOf(caller),
     quiet |-> caller # "any", pc |-> "select", lastOutput |-> EmptyStr, sinceChange |-> 0,
     untilTick |-> checkInterval, expired |-> FALSE,
     capName |-> EmptyStr, capOut |-> EmptyStr,
     outcome |-> "none", snapshot |-> EmptyStr,
     age |-> 0, sinceOutput |-> 0, onLineFor |-> 0]

InitWait ==
    /\ \E text \in WaitTexts : sessions = Put(<<>>, WaitName, text)
    /\ createdSessions = {}
    /\ pc = "idle"
    /\ call = NoCall
    /\ loc = NoLoc
    /\ token = EmptyStr
    /\ fresh = EmptyStr
    /\ hashOf = <<>>
    /\ log = NoLog
    /\ ret = NoRet
    /\ createdSessionsMu = 0
    /\ creators = <<>>
    /\ \E kind \in {"stability", "expected"}, caller \in WaitCallers :
           /\ caller = "sendKeysCommon" => kind = "expected"
           /\ waiter = NewWaiter(kind, caller)
    /\ bash = <<>>
    /\ wrapper = <<>>

WaitFrame ==
    UNCHANGED <<createdSessions, pc, call, loc, token, fresh, hashOf, log, ret,
                createdSessionsMu, creators, bash, wrapper>>

\* the backend call of a waiter fails: its context has expired
CtxDone == waiter.expired

\* back to the select of the loop (continue, or the end of the tick)
Select(w) == [w EXCEPT !.pc = "select", !.capName = EmptyStr, !.capOut = EmptyStr]

\* return result, err
Return(w, outcome, snapshot) ==
    [Select(w) EXCEPT !.pc = "done", !.outcome = outcome, !.snapshot = snapshot]

\* 100 ms pass while the call sleeps in its select
TimePasses ==
    /\ waiter.pc = "select" /\ ~waiter.expired /\ waiter.untilTick > 0
    /\ waiter.left # 0
    /\ waiter' = [waiter EXCEPT
           !.untilTick = @ - 1,
           !.left = IF @ > 0 THEN @ - 1 ELSE @,
           !.sinceChange = Later(@, ClockCap(waiter.kind)),
           !.age = Later(@, stabilityThreshold),
           !.sinceOutput = IF waiter.kind = "stability"
                           THEN Later(@, stabilityThreshold) ELSE 0,
           !.onLineFor = IF /\ waiter.kind = "expected"
                            /\ WaitName \in DOMAIN sessions
                            /\ OnCursorLine(sessions[WaitName])
                         THEN Later(@, checkInterval + 1) ELSE 0]
    /\ UNCHANGED sessions
    /\ WaitFrame

\* the deadline of ctx passes
DeadlinePasses ==
    /\ waiter.pc # "done" /\ ~waiter.expired
    /\ waiter.left <= 0
    /\ waiter' = [waiter EXCEPT !.expired = TRUE]
    /\ UNCHANGED sessions
    /\ WaitFrame

\* the program in the pane prints, or the pane is cleared
PaneChanges ==
    /\ waiter.pc # "done"
    /\ WaitName \in DOMAIN sessions
    /\ \E text \in WaitTexts \ {sessions[WaitName]} :
           /\ sessions' = [sessions EXCEPT ![WaitName] = text]
           /\ waiter' = [waiter EXCEPT
                  !.sinceOutput = 0, !.quiet = FALSE,
                  !.onLineFor = IF OnCursorLine(sessions[WaitName]) /\ OnCursorLine(text)
                                THEN @ ELSE 0]
    /\ WaitFrame

\* the session ends
PaneExits ==
    /\ waiter.pc # "done"
    /\ WaitName \in DOMAIN sessions
    /\ sessions' = Drop(sessions, WaitName)
    /\ waiter' = [waiter EXCEPT !.sinceOutput = 0, !.onLineFor = 0, !.quiet = FALSE]
    /\ WaitFrame

\* Mutant of timedDone: the deadline is looked at only when the output has
\* not changed since the tick before
timedDoneWhenQuiet ==
    /\ waiter.pc = "select" /\ waiter.expired
    /\ waiter.sinceChange > checkInterval
    /\ LET srv == IF CtxDone THEN Failing ELSE sessions
           res == resolveSession(srv, WaitName, EmptyStr)
       IN  waiter' = IF res.err # "none" THEN Return(waiter, "cancelled", EmptyStr)
                     ELSE IF waiter.kind = "stability"
                     THEN Return(waiter, "degraded", sessions[res.name])
                     ELSE Return(waiter, "cancelled", sessions[res.name])
    /\ UNCHANGED sessions
    /\ WaitFrame

\* case <-ctx.Done() of either loop (client.go:256, client.go:288): one more
\* capture is made with ctx, whose list-sessions fails as ctx is done; with a
\* result waitForStability would return it without an error ("degraded")
timedDone ==
    /\ waiter.pc = "select" /\ waiter.expired
    /\ LET srv == IF CtxDone THEN Failing ELSE sessions
           res == resolveSession(srv, WaitName, EmptyStr)
       IN  waiter' = IF res.err # "none" THEN Return(waiter, "cancelled", EmptyStr)
                     ELSE IF waiter.kind = "stability"
                     THEN Return(waiter, "degraded", sessions[res.name])
                     ELSE Return(waiter, "cancelled", sessions[res.name])
    /\ UNCHANGED sessions
    /\ WaitFrame

\* Mutant of timedTick: a capture that fails is the end of the wait
timedTickFailFast ==
    /\ waiter.pc = "select" /\ waiter.untilTick = 0
    /\ LET srv == IF CtxDone THEN Failing ELSE sessions
           res == resolveSession(srv, WaitName, EmptyStr)
           w == [waiter EXCEPT !.untilTick = checkInterval]
       IN  waiter' = IF res.err # "none" THEN Return(w, "cancelled", EmptyStr)
                     ELSE [w EXCEPT !.pc = "pane", !.capName = res.name]
    /\ UNCHANGED sessions
    /\ WaitFrame

\* case <-ticker.C, first call of the tick: resolveSession of capture
\* (client.go:47) or captureWithCursor (client.go:68); an error is skipped
timedTick ==
    /\ waiter.pc = "select" /\ waiter.untilTick = 0
    /\ LET srv == IF CtxDone THEN Failing ELSE sessions
           res == resolveSession(srv, WaitName, EmptyStr)
           w == [waiter EXCEPT !.untilTick = checkInterval]
       IN  waiter' = IF res.err # "none" THEN Select(w)
                     ELSE [w EXCEPT !.pc = "pane", !.capName = res.name]
    /\ UNCHANGED sessions
    /\ WaitFrame

\* Mutant of timedCapturePane: a run of equal captures is stable after one
\* interval
timedCapturePaneHasty ==
    /\ waiter.pc = "pane"
    /\ LET raw == sessions[waiter.capName]
       IN  waiter' =
               IF CtxDone \/ waiter.capName \notin DOMAIN sessions
               THEN Select(waiter)
               ELSE IF waiter.kind = "expected"
               THEN [waiter EXCEPT !.pc = "cursor", !.capOut = raw]
               ELSE IF formatOutput(raw) # waiter.lastOutput
               THEN [Select(waiter) EXCEPT !.lastOutput = formatOutput(raw),
                                           !.sinceChange = 0]
               ELSE IF waiter.sinceChange >= checkInterval
               THEN Return(waiter, "stable", raw)
               ELSE Select(waiter)
    /\ UNCHANGED sessions
    /\ WaitFrame

\* tmux capture-pane -p of the tick (client.go:56, client.go:78); in
\* waitForStability the rest of the tick follows (client.go:266-276)
timedCapturePane ==
    /\ waiter.pc = "pane"
    /\ LET raw == sessions[waiter.capName]
       IN  waiter' =
               IF CtxDone \/ waiter.capName \notin DOMAIN sessions
               THEN Select(waiter)
               ELSE IF waiter.kind = "expected"
               THEN [waiter EXCEPT !.pc = "cursor", !.capOut = raw]
               ELSE IF formatOutput(raw) # waiter.lastOutput
               THEN [Select(waiter) EXCEPT !.lastOutput = formatOutput(raw),
                                           !.sinceChange = 0]
               ELSE IF waiter.sinceChange >= stabilityThreshold
               THEN Return(waiter, "stable", raw)
               ELSE Select(waiter)
    /\ UNCHANGED sessions
    /\ WaitFrame

\* Mutant of timedCursorPosition: a capture that differs is remembered but
\* lastChange is left as it was
timedCursorPositionNoReset ==
    /\ waiter.pc = "cursor"
    /\ LET cursorLine == cursorLineOf(waiter.capOut, CursorY(sessions[waiter.capName]))
       IN  waiter' =
               IF CtxDone \/ waiter.capName \notin DOMAIN sessions
               THEN Select(waiter)
               ELSE IF Contains(cursorLine, WaitExpected)
               THEN Return(waiter, "matched", waiter.capOut)
               ELSE IF formatOutput(waiter.capOut) # waiter.lastOutput
               THEN [Select(waiter) EXCEPT !.lastOutput = formatOutput(waiter.capOut)]
               ELSE IF waiter.sinceChange >= noOutputTimeout
               THEN Return(waiter, "stalled", waiter.capOut)
               ELSE Select(waiter)
    /\ UNCHANGED sessions
    /\ WaitFrame

\* Mutant of timedCursorPosition: a capture that fails counts as a change
\* of the output
timedCursorPositionFailResets ==
    /\ waiter.pc = "cursor"
    /\ LET cursorLine == cursorLineOf(waiter.capOut, CursorY(sessions[waiter.capName]))
       IN  waiter' =
               IF CtxDone \/ waiter.capName \notin DOMAIN sessions
               THEN [Select(waiter) EXCEPT !.lastOutput = EmptyStr, !.sinceChange = 0]
               ELSE IF Contains(cursorLine, WaitExpected)
               THEN Return(waiter, "matched", waiter.capOut)
               ELSE IF formatOutput(waiter.capOut) # waiter.lastOutput
               THEN [Select(waiter) EXCEPT !.lastOutput = formatOutput(waiter.capOut),
                                           !.sinceChange = 0]
               ELSE IF waiter.sinceChange >= noOutputTimeout
               THEN Return(waiter, "stalled", waiter.capOut)
               ELSE Select(waiter)
    /\ UNCHANGED sessions
    /\ WaitFrame

\* tmux display-message -p "#{cursor_y}:#{cursor_x}" of captureWithCursor
\* (client.go:90), and the rest of the tick of waitForExpected
\* (client.go:301-321)
timedCursorPosition ==
    /\ waiter.pc = "cursor"
    /\ LET cursorLine == cursorLineOf(waiter.capOut, CursorY(sessions[waiter.capName]))
       IN  waiter' =
               IF CtxDone \/ waiter.capName \notin DOMAIN sessions
               THEN Select(waiter)
               ELSE IF Contains(cursorLine, WaitExpected)
               THEN Return(waiter, "matched", waiter.capOut)
               ELSE IF formatOutput(waiter.capOut) # waiter.lastOutput
               THEN [Select(waiter) EXCEPT !.lastOutput = formatOutput(waiter.capOut),
                                           !.sinceChange = 0]
               ELSE IF waiter.sinceChange >= noOutputTimeout
               THEN Return(waiter, "stalled", waiter.capOut)
               ELSE Select(waiter)
    /\ UNCHANGED sessions
    /\ WaitFrame

WaiterStep == timedDone \/ timedTick \/ timedCapturePane \/ timedCursorPosition

NextWait ==
    \/ TimePasses
    \/ DeadlinePasses
    \/ PaneChanges
    \/ PaneExits
    \/ timedDone
    \/ timedTick
    \/ timedCapturePane
    \/ timedCursorPosition

SpecWait == InitWait /\ [][NextWait]_vars

\* the goroutine of the wait is scheduled whenever it can take a step
SpecWaitFair == SpecWait /\ WF_vars(WaiterStep)

(***************************************************************************)
(* BashTool.Handle (tmux_bash.go:47): the loop that waits for the exit     *)
(* file of the command, and finish.  The timers are channels that become   *)
(* ready at some moment; the command writes its output and its exit code   *)
(* while the handler waits.                                                *)
(***************************************************************************)
BashOutputs == {EmptyStr, <<120>>}
ExitCodes == {"0", "1"}

NewBash ==
    [pc |-> "create", sessionName |-> EmptyStr, outputFile |-> EmptyStr,
     exitFile |-> "none", timeoutChan |-> FALSE, ctxDone |-> FALSE,
     warnBuf |-> {}, returnError |-> FALSE, resultBuf |-> EmptyStr,
     result |-> "none", killed |-> {}]

InitBash ==
    /\ sessions = <<>>
    /\ createdSessions = {}
    /\ pc = "idle"
    /\ call = NoCall
    /\ loc = NoLoc
    /\ token = EmptyStr
    /\ fresh = EmptyStr
    /\ hashOf = <<>>
    /\ log = NoLog
    /\ ret = NoRet
    /\ createdSessionsMu = 0
    /\ creators = <<>>
    /\ waiter = <<>>
    /\ bash = NewBash
    /\ wrapper = <<>>

BashFrame ==
    UNCHANGED <<pc, call, loc, token, fresh, hashOf, log, ret, createdSessionsMu,
                creators, waiter, wrapper>>

BashWaits == bash.pc \in {"select", "exists"}

\* the warnings whose text holds "timed out", and those that name the session
TimedOutWarnings == {"timeout", "ctx"}
SessionWarnings == {"timeout", "ctx", "gone"}

\* Mutant of handleCompletedCommand: a missing exit file is not an error
handleCompletedCommandLenient(t) ==
    LET missing == t.exitFile = "none"
        failed == ~missing /\ t.exitFile # "0"
    IN  [t EXCEPT !.pc = "done",
                  !.warnBuf = @ \cup (IF missing THEN {"noexit"} ELSE {})
                                \cup (IF failed THEN {"failed"} ELSE {}),
                  !.returnError = failed,
                  !.resultBuf = t.outputFile,
                  !.result = IF failed THEN "error" ELSE "output"]

\* t.finish(ctx) (tmux_bash.go:153) with handleCompletedCommand
\* (tmux_bash.go:460): the exit file decides whether the text is an error
handleCompletedCommand(t) ==
    LET missing == t.exitFile = "none"
        failed == ~missing /\ t.exitFile # "0"
    IN  [t EXCEPT !.pc = "done",
                  !.warnBuf = @ \cup (IF missing THEN {"noexit"} ELSE {})
                                \cup (IF failed THEN {"failed"} ELSE {}),
                  !.returnError = missing \/ failed,
                  !.resultBuf = t.outputFile,
                  !.result = IF missing \/ failed THEN "error" ELSE "output"]

warnf(t, warning) == [t EXCEPT !.warnBuf = @ \cup {warning}]

\* createUniqueSessionWithEnv (tmux_bash.go:104)
bashCreateSession ==
    /\ bash.pc = "create"
    /\ BashFrame
    /\ \E r \in RandNums, started \in BOOLEAN :
           LET name == uniqueName(EmptyStr, <<>>, r)
           IN  IF started
               THEN /\ sessions' = (name :> EmptyStr)
                    /\ createdSessions' = {name}
                    /\ bash' = [bash EXCEPT !.pc = "select", !.sessionName = name]
               ELSE /\ bash' = [bash EXCEPT !.pc = "done", !.result = "error"]
                    /\ UNCHANGED <<sessions, createdSessions>>

\* the script of the session: the command writes to the output file
CommandWrites ==
    /\ BashWaits
    /\ bash.exitFile = "none"
    /\ bash.sessionName \in DOMAIN sessions
    /\ BashFrame
    /\ \E out \in BashOutputs \ {bash.outputFile} :
           bash' = [bash EXCEPT !.outputFile = out]
    /\ UNCHANGED <<sessions, createdSessions>>

\* the command ends and the script writes its exit code
CommandExits ==
    /\ BashWaits
    /\ bash.exitFile = "none"
    /\ bash.sessionName \in DOMAIN sessions
    /\ BashFrame
    /\ \E code \in ExitCodes : bash' = [bash EXCEPT !.exitFile = code]
    /\ UNCHANGED <<sessions, createdSessions>>

\* the script has ended, or another client kills the session
SessionCloses ==
    /\ BashWaits
    /\ bash.sessionName \in DOMAIN sessions
    /\ BashFrame
    /\ sessions' = Drop(sessions, bash.sessionName)
    /\ UNCHANGED <<createdSessions, bash>>

\* time.After(timeoutDuration) fires
TimeoutElapses ==
    /\ BashWaits
    /\ ~bash.timeoutChan
    /\ BashFrame
    /\ bash' = [bash EXCEPT !.timeoutChan = TRUE]
    /\ UNCHANGED <<sessions, createdSessions>>

\* the context of the call is cancelled, or its deadline five seconds after
\* the timeout passes
BashCtxExpires ==
    /\ BashWaits
    /\ ~bash.ctxDone
    /\ BashFrame
    /\ bash' = [bash EXCEPT !.ctxDone = TRUE]
    /\ UNCHANGED <<sessions, createdSessions>>

\* case <-timeoutChan (tmux_bash.go:124), then finish
bashTimeout ==
    /\ bash.pc = "select"
    /\ bash.timeoutChan
    /\ BashFrame
    /\ bash' = handleCompletedCommand(warnf(bash, "timeout"))
    /\ UNCHANGED <<sessions, createdSessions>>

\* case <-ctx.Done() (tmux_bash.go:127), then finish
bashCtxDone ==
    /\ bash.pc = "select"
    /\ bash.ctxDone
    /\ BashFrame
    /\ bash' = handleCompletedCommand(warnf(bash, "ctx"))
    /\ UNCHANGED <<sessions, createdSessions>>

\* case <-ticker.C (tmux_bash.go:131): os.Stat(t.exitFile)
bashTick ==
    /\ bash.pc = "select"
    /\ BashFrame
    /\ bash' = IF bash.exitFile # "none" THEN handleCompletedCommand(bash)
               ELSE [bash EXCEPT !.pc = "exists"]
    /\ UNCHANGED <<sessions, createdSessions>>

\* sessionExists(ctx, t.sessionName) (tmux_bash.go:496): has-session that
\* fails for another reason than a missing session panics
bashSessionExists ==
    /\ bash.pc = "exists"
    /\ BashFrame
    /\ \E srv \in Backend :
           bash' = IF bash.ctxDone \/ srv = Failing
                   THEN [bash EXCEPT !.pc = "done", !.result = "panic"]
                   ELSE IF bash.sessionName \notin DOMAIN srv
                   THEN handleCompletedCommand(warnf(bash, "gone"))
                   ELSE [bash EXCEPT !.pc = "select"]
    /\ UNCHANGED <<sessions, createdSessions>>

BashStep ==
    \/ bashTimeout
    \/ bashCtxDone
    \/ bashTick
    \/ bashSessionExists

NextBash ==
    \/ bashCreateSession
    \/ CommandWrites
    \/ CommandExits
    \/ SessionCloses
    \/ TimeoutElapses
    \/ BashCtxExpires
    \/ BashStep

SpecBash == InitBash /\ [][NextBash]_vars

(***************************************************************************)
(* MCPWrapper (cmd/mcpwrapper/main.go): Start in the main goroutine and    *)
(* watchFileChanges in the goroutine Start launches first.  Every function *)
(* below holds w.mu from its first to its last statement, so each is one   *)
(* step.  A version of the binary is known by the tools its server lists.  *)
(* The handlers createProxyHandler makes run in goroutines of their own;   *)
(* one holds w.mu for reading from its sendToServer to its return.         *)
(***************************************************************************)
MaxChanges == 2

\* the number of concurrent tool calls
NumCalls == 2

Calls == 1..NumCalls

\* a proxy handler that was not called yet; id is the ID of its request, of
\* the call whose request the response it returned answers
NewHandler == [pc |-> "idle", id |-> 0, result |-> "none", of |-> 0]

Versions == {1, 2}

\* the names in the answer of the server of a version to tools/list
toolsList(version) ==
    IF version = 1 THEN <<"tmux_capture", "tmux_kill">>
    ELSE <<"tmux_capture", "", "tmux_bash">>

NewWrapper ==
    [binary |-> 1, changes |-> 0, Events |-> 0, currentProcess |-> 0,
     currentTools |-> {}, serverTools |-> {}, isRestarting |-> FALSE,
     main |-> "start", watcher |-> "select", restarted |-> "none",
     requestID |-> 0, currentStdin |-> <<>>, currentStdout |-> <<>>, forwarded |-> {},
     handlers |-> [c \in Calls |-> NewHandler]]

InitWrapper ==
    /\ sessions = <<>>
    /\ createdSessions = {}
    /\ pc = "idle"
    /\ call = NoCall
    /\ loc = NoLoc
    /\ token = EmptyStr
    /\ fresh = EmptyStr
    /\ hashOf = <<>>
    /\ log = NoLog
    /\ ret = NoRet
    /\ createdSessionsMu = 0
    /\ creators = <<>>
    /\ waiter = <<>>
    /\ bash = <<>>
    /\ wrapper = NewWrapper

WrapperFrame ==
    UNCHANGED <<sessions, createdSessions, pc, call, loc, token, fresh, hashOf, log, ret,
                createdSessionsMu, creators, waiter, bash>>

Running == wrapper.main # "exited"

\* w.mu.Lock() can be taken: no handler holds w.mu for reading
CanLock == \A c \in Calls : wrapper.handlers[c].pc # "read"

\* startUnderlyingServer (main.go:145): the binary on disk is executed
startUnderlyingServer(w, started) ==
    IF started THEN [w EXCEPT !.currentProcess = w.binary,
                              !.currentStdin = <<>>, !.currentStdout = <<>>]
    ELSE w

\* stopUnderlyingServer (main.go:173)
stopUnderlyingServer(w) ==
    [w EXCEPT !.currentProcess = 0, !.currentStdin = <<>>, !.currentStdout = <<>>]

\* removeAllTools (main.go:251)
removeAllTools(w) ==
    [w EXCEPT !.serverTools = @ \ w.currentTools, !.currentTools = {}]

\* parseAndAddTools (main.go:374): every entry with a name is added
parseAndAddTools(w, toolsData) ==
    LET names == {toolsData[i] : i \in DOMAIN toolsData} \ {""}
    IN  [w EXCEPT !.serverTools = @ \cup names, !.currentTools = @ \cup names]

\* loadToolsFromServer (main.go:271): initialize and tools/list are sent to
\* the running server, each with the next request ID; without a server, or
\* without its answers, it fails
loadToolsFromServer(w, answered) ==
    IF w.currentProcess = 0 \/ ~answered
    THEN [w |-> [w EXCEPT !.requestID = @ + 1], err |-> TRUE]
    ELSE [w |-> [parseAndAddTools(w, toolsList(w.currentProcess))
                    EXCEPT !.requestID = @ + 2],
          err |-> FALSE]

\* the binary is written again: fsnotify queues an event
BinaryChanges ==
    /\ Running
    /\ wrapper.changes < MaxChanges
    /\ WrapperFrame
    /\ \E version \in Versions \ {wrapper.binary} :
           wrapper' = [wrapper EXCEPT !.binary = version, !.changes = @ + 1,
                                      !.Events = @ + 1]

\* Start (main.go:96): w.startUnderlyingServer()
StartUnderlying ==
    /\ wrapper.main = "start"
    /\ WrapperFrame
    /\ \E started \in BOOLEAN :
           wrapper' = [startUnderlyingServer(wrapper, started)
                          EXCEPT !.main = IF started THEN "load" ELSE "exited"]

\* Start: w.loadToolsFromServer(); a failure is only logged
StartLoadTools ==
    /\ wrapper.main = "load"
    /\ WrapperFrame
    /\ \E answered \in BOOLEAN :
           wrapper' = [loadToolsFromServer(wrapper, answered).w EXCEPT !.main = "serve"]

\* watchFileChanges (main.go:107): an event is taken, and after the sleep
\* restartServer (main.go:204) sets isRestarting
watchFileChanges ==
    /\ Running
    /\ CanLock
    /\ wrapper.watcher = "select"
    /\ wrapper.Events > 0
    /\ WrapperFrame
    /\ wrapper' = [wrapper EXCEPT !.Events = @ - 1, !.isRestarting = TRUE,
                                  !.watcher = "remove"]

\* restartServer: w.removeAllTools()
restartRemoveAllTools ==
    /\ Running
    /\ CanLock
    /\ wrapper.watcher = "remove"
    /\ WrapperFrame
    /\ wrapper' = [removeAllTools(wrapper) EXCEPT !.watcher = "stop"]

\* restartServer: w.stopUnderlyingServer()
restartStop ==
    /\ Running
    /\ CanLock
    /\ wrapper.watcher = "stop"
    /\ WrapperFrame
    /\ wrapper' = [stopUnderlyingServer(wrapper) EXCEPT !.watcher = "start"]

\* restartServer: w.startUnderlyingServer(); on an error the restart fails
restartStart ==
    /\ Running
    /\ CanLock
    /\ wrapper.watcher = "start"
    /\ WrapperFrame
    /\ \E started \in BOOLEAN :
           wrapper' = IF started
                      THEN [startUnderlyingServer(wrapper, TRUE) EXCEPT !.watcher = "load"]
                      ELSE [wrapper EXCEPT !.watcher = "select", !.isRestarting = FALSE,
                                           !.restarted = "failed"]

\* restartServer: w.loadToolsFromServer(), and the end of the restart
restartLoadTools ==
    /\ Running
    /\ CanLock
    /\ wrapper.watcher = "load"
    /\ WrapperFrame
    /\ \E answered \in BOOLEAN :
           LET loaded == loadToolsFromServer(wrapper, answered)
           IN  wrapper' = [loaded.w EXCEPT !.watcher = "select", !.isRestarting = FALSE,
                                           !.restarted = IF loaded.err THEN "failed"
                                                         ELSE "ok"]

\* createProxyHandler (main.go:470): isRestarting is read under w.mu.RLock()
\* and the lock is released; while the server restarts the call is refused
proxyCheckRestarting(c) ==
    /\ wrapper.main = "serve"
    /\ wrapper.serverTools # {}
    /\ wrapper.handlers[c].pc = "idle"
    /\ WrapperFrame
    /\ wrapper' = [wrapper EXCEPT !.handlers[c] =
                       IF wrapper.isRestarting
                       THEN [@ EXCEPT !.pc = "returned", !.result = "restarting"]
                       ELSE [@ EXCEPT !.pc = "next_id"]]

\* getNextRequestID (main.go:634), called without a lock: w.requestID++ reads
\* the counter
getNextRequestIDRead(c) ==
    /\ wrapper.handlers[c].pc = "next_id"
    /\ WrapperFrame
    /\ wrapper' = [wrapper EXCEPT !.handlers[c].pc = "write_id",
                                  !.handlers[c].id = wrapper.requestID + 1]

\* w.requestID++ writes the counter, and the new value is the ID
getNextRequestIDWrite(c) ==
    /\ wrapper.handlers[c].pc = "write_id"
    /\ WrapperFrame
    /\ wrapper' = [wrapper EXCEPT !.handlers[c].pc = "send",
                                  !.requestID = wrapper.handlers[c].id]

\* w.mu.RLock() and sendToServer (main.go:323): the request is written to the
\* stdin of the server, or there is none
proxySendToServer(c) ==
    /\ wrapper.handlers[c].pc = "send"
    /\ WrapperFrame
    /\ wrapper' =
           IF wrapper.currentProcess = 0
           THEN [wrapper EXCEPT !.handlers[c].pc = "returned",
                                !.handlers[c].result = "forward_failed"]
           ELSE [wrapper EXCEPT !.handlers[c].pc = "read",
                                !.forwarded = @ \cup {wrapper.handlers[c].id},
                                !.currentStdin =
                                    Append(@, [id |-> wrapper.handlers[c].id, call |-> c])]

\* the underlying server answers the next request on its stdin
ServerAnswers ==
    /\ wrapper.currentProcess # 0
    /\ wrapper.currentStdin # <<>>
    /\ WrapperFrame
    /\ wrapper' = [wrapper EXCEPT !.currentStdin = Tail(@),
                                  !.currentStdout = Append(@, Head(wrapper.currentStdin))]

\* readFromServer (main.go:340): a new bufio.Reader takes what the pipe holds,
\* its first line is the response, and what else it took is dropped with it
proxyReadFromServer(c) ==
    /\ wrapper.handlers[c].pc = "read"
    /\ wrapper.currentStdout # <<>>
    /\ WrapperFrame
    /\ \E taken \in 1..Len(wrapper.currentStdout) :
           wrapper' = [wrapper EXCEPT
                          !.currentStdout = SubSeq(@, taken + 1, Len(@)),
                          !.handlers[c] = [@ EXCEPT !.pc = "returned", !.result = "ok",
                                                    !.of = wrapper.currentStdout[1].call]]

NextWrapper ==
    \/ BinaryChanges
    \/ StartUnderlying
    \/ StartLoadTools
    \/ watchFileChanges
    \/ restartRemoveAllTools
    \/ restartStop
    \/ restartStart
    \/ restartLoadTools
    \/ \E c \in Calls : proxyCheckRestarting(c)
    \/ \E c \in Calls : getNextRequestIDRead(c)
    \/ \E c \in Calls : getNextRequestIDWrite(c)
    \/ \E c \in Calls : proxySendToServer(c)
    \/ ServerAnswers
    \/ \E c \in Calls : proxyReadFromServer(c)

SpecWrapper == InitWrapper /\ [][NextWrapper]_vars

(***************************************************************************)
(* The caller's token over several calls: the tools that capture and that  *)
(* send keys, with the history of the token (log.spent) kept from call to  *)
(* call.  The actions are those of Spec.                                   *)
(***************************************************************************)
InitToken ==
    /\ sessions = <<>>
    /\ createdSessions = {}
    /\ pc = "idle"
    /\ call = NoCall
    /\ loc = NoLoc
    /\ token = EmptyStr
    /\ fresh = EmptyStr
    /\ hashOf = [c \in Contents |-> calculateHash(c)]
    /\ log = [NoLog EXCEPT !.history = TRUE]
    /\ ret = NoRet
    /\ createdSessionsMu = 0
    /\ creators = <<>>
    /\ waiter = <<>>
    /\ bash = <<>>
    /\ wrapper = <<>>

NextToken ==
    \/ EnvOutput
    \/ EnvClear
    \/ EnvExit
    \/ EnvNewSession
    \/ CaptureHandleResolve
    \/ CaptureHandlePane
    \/ SendKeysHandle
    \/ SendControlKeysHandle
    \/ sendKeysCommonVerify
    \/ sendKeysToSessionKeys
    \/ sendKeysToSessionEnter
    \/ handleWithoutExpectVerify
    \/ handleWithoutExpectKeys
    \/ handleWithoutExpectEnter
    \/ waitForHashChangeTimeout
    \/ waitForHashChangeTick
    \/ waitForKeysToAppearTimeout
    \/ waitForKeysToAppearTick
    \/ waitForKeysToAppearPane
    \/ waitForStabilityDone
    \/ waitForStabilityTick
    \/ waitForStabilityPane
    \/ waitForExpectedDone
    \/ waitForExpectedTick
    \/ captureWithCursorPane
    \/ captureWithCursorCursor
    \/ ResultDelivered

SpecToken == InitToken /\ [][NextToken]_vars

(***************************************************************************)
(* Properties                                                              *)
(***************************************************************************)
SendTools == {"send_keys", "send_control_keys"}

SendVerifyPcs == {"skc_verify", "hwe_verify"}

SendKeysPcs == {"skc_keys", "hwe_keys"}

\* the running call has just returned status from one of tools
Returned(tools, status) ==
    pc = "returned" /\ ret.tool \in tools /\ ret.status = status

\* the handler, not the environment, takes the step
HandlerStep == pc' # pc

\* the fresh capture of verifySessionHash would not match the presented hash
Drifted ==
    loc.name \in DOMAIN sessions /\ hashOf[sessions[loc.name]] # call.hash

C2_GateClosesOnDriftKill ==
    [][ /\ (pc = "kill_verify" /\ HandlerStep /\ Drifted)
           => /\ pc' = "returned"
              /\ ret'.status = "state_changed"
              /\ log'.killed = {}
              /\ sessions' = sessions
              /\ ret'.name \in DOMAIN sessions'
        /\ (pc = "kill_verify" /\ HandlerStep /\ loc.name \in DOMAIN sessions /\ ~Drifted)
           => pc' = "kill_kill" /\ log'.verified = loc.name
        /\ (pc = "kill_kill" /\ HandlerStep)
           => /\ log.verified = loc.name
              /\ log'.killed = {loc.name}
              /\ loc.name \notin DOMAIN sessions' ]_vars

C2_Witness ==
    /\ Returned({"kill"}, "state_changed")
    /\ log.killed = {}
    /\ ret.name \in DOMAIN sessions

\* C3 as stated: every mutating backend call of a send-keys executor, the
\* separately issued Enter included, comes immediately after a verification
\* of its own that matched.
C3_EveryMutationFreshlyChecked ==
    [][ (log'.nKeys > log.nKeys \/ log'.nEnter > log.nEnter)
        => log.prev = "verify_ok" ]_vars

\* C3: check immediately precedes mutate, for the keys.  The key injection of
\* sendKeysToSession and of handleWithoutExpect comes immediately after the
\* verification of that same session that matched; the separately issued
\* Enter is not verified again: it follows the key injection of the same call
\* (after waitForKeysToAppear in handleWithoutExpect) under that one
\* verification.
C3_KeysFreshlyCheckedEnterNot ==
    [][ /\ (log'.nKeys > log.nKeys)
           => /\ log.prev = "verify_ok"
              /\ log.verified = loc.name
              /\ log.nVerify = 1
        /\ (log'.nEnter > log.nEnter)
           => /\ log.prev \in {"keys", "poll"}
              /\ log.nKeys = 1
              /\ log.verified = loc.name
              /\ log.nVerify = 1 /\ log'.nVerify = 1 ]_vars

C3_Witness ==
    /\ log.nEnter = 1 /\ log.nKeys = 1 /\ log.nVerify = 1
    /\ log.prev = "enter"
    /\ log.touched # {}

\* C4: every destroy is gated.  Every session a handler has killed is the
\* session the handler has verified against the hash of its caller.
C4_EveryDestroyGated ==
    \A n \in log.killed : log.verified = n

\* the tool of the running or of the just returned call
CurTool == IF pc = "returned" THEN ret.tool ELSE call.tool

\* C5: hash is mandatory.  A kill or send call with an empty hash returns
\* "hash is required" having verified nothing and changed nothing; a send
\* call with empty keys is rejected likewise; so no verification is reached
\* with an empty hash, no key injection with empty keys, and whatever such a
\* call has changed it has changed after a verification.
C5_HashMandatory ==
    /\ (pc = "returned" /\ ret.status \in {"hash_required", "keys_required"})
       => /\ log.nVerify = 0 /\ log.nKeys = 0 /\ log.nEnter = 0
          /\ log.killed = {} /\ log.touched = {}
    /\ pc \in SendVerifyPcs \cup {"kill_verify"} => call.hash # EmptyStr
    /\ pc \in SendVerifyPcs \cup SendKeysPcs => call.keys # EmptyStr
    /\ (CurTool \in SendTools \cup {"kill"}
            /\ (log.nKeys > 0 \/ log.nEnter > 0 \/ log.killed # {}))
       => log.nVerify = 1 /\ log.verified # EmptyStr

C5_Witness ==
    /\ Returned(SendTools, "hash_required")
    /\ DOMAIN sessions # {}
    /\ log.nVerify = 0

\* C6: gate opens on match.  If the caller presents the hash of the last
\* snapshot a result gave it and the content of that session has not changed
\* since, verifySessionHash accepts; the key injection that follows appends
\* the keys to the pane, and a capture then has another hash.
C6_GateOpensOnMatch ==
    [][ /\ (/\ pc \in SendVerifyPcs \cup {"kill_verify"}
            /\ HandlerStep
            /\ loc.name # EmptyStr /\ fresh = loc.name /\ call.hash = token)
           => /\ pc' \in SendKeysPcs \cup {"kill_kill"}
              /\ log'.verified = loc.name
        /\ (pc \in SendKeysPcs /\ HandlerStep /\ loc.name \in DOMAIN sessions)
           => /\ sessions'[loc.name] = sessions[loc.name] \o call.keys
              /\ hashOf[sessions'[loc.name]] # hashOf[sessions[loc.name]]
              /\ log'.nKeys = 1 ]_vars

C6_Witness ==
    /\ pc \in SendKeysPcs
    /\ loc.name # EmptyStr /\ fresh = loc.name
    /\ log.verified = loc.name
    /\ token = hashOf[sessions[loc.name]]
    /\ token # hashOf[EmptyStr]

Matching(prefix) ==
    {n \in DOMAIN sessions :
        HasPrefix(n, IF prefix = EmptyStr THEN DetectedPrefix ELSE prefix)}

\* the elements of a sequence
Range(seq) == {seq[i] : i \in DOMAIN seq}

\* C9: prefix resolution never guesses.  Without a session name,
\* resolveSession returns a not-found error when no live session has the
\* prefix, that session when exactly one has, and an ambiguity error that
\* lists all of them when several have; a call that returned the ambiguity
\* error has touched no session.
C9_PrefixResolutionNeverGuesses ==
    /\ \A p \in PrefixArgs :
           LET r == resolveSession(sessions, p, EmptyStr)
               m == Matching(p)
           IN  /\ m = {} => r.err = "no_match" /\ r.name = EmptyStr
               /\ Cardinality(m) = 1 => r.err = "none" /\ r.name \in m
               /\ Cardinality(m) > 1
                  => /\ r.err = "ambiguous" /\ r.name = EmptyStr
                     /\ Range(r.candidates) = m
                     /\ Len(r.candidates) = Cardinality(m)
    /\ (pc = "returned" /\ ret.status = "ambiguous")
       => /\ \E p \in PrefixArgs : Cardinality(Matching(p)) > 1
          /\ log.touched = {} /\ log.killed = {}
    /\ (pc = "returned" /\ ret.status = "no_match")
       => log.touched = {} /\ log.killed = {}

C9_Witness ==
    /\ pc = "returned" /\ ret.status = "ambiguous"
    /\ Cardinality(DOMAIN sessions) = 2

\* C10: explicit name resolution.  With a session name, resolveSession
\* ignores the prefix and returns the name if and only if it is exactly the
\* name of a live session, else a not-found error; a call that returned the
\* error has made no backend call on any session.
C10_ExplicitNameResolution ==
    /\ \A p \in PrefixArgs, s \in AllNames :
           LET r == resolveSession(sessions, p, s)
           IN  IF s \in DOMAIN sessions
               THEN r.err = "none" /\ r.name = s
               ELSE r.err = "not_found" /\ r.name = EmptyStr
    /\ (pc = "returned" /\ ret.status = "not_found")
       => /\ log.touched = {} /\ log.killed = {}
          /\ log.nVerify = 0 /\ log.nKeys = 0 /\ log.nEnter = 0

C10_Witness ==
    /\ pc = "returned" /\ ret.status = "not_found"
    /\ DOMAIN sessions # {}
    /\ log.prev = "list"

\* C11: list failure is absence.  When list-sessions fails, list and
\* findSessionsByPrefix give the empty list, so resolveSession answers as it
\* does when there is no session at all: the not-found error of the explicit
\* name or of the prefix, never the failure of the backend; and no call
\* returns that failure from its resolution.
C11_ListFailureIsAbsence ==
    /\ \A p \in PrefixArgs \cup {EmptyStr} :
           list(Failing, p) = <<>> /\ findSessionsByPrefix(Failing, p) = <<>>
    /\ \A p \in PrefixArgs, s \in SessionArgs :
           /\ resolveSession(Failing, p, s) = resolveSession(<<>>, p, s)
           /\ resolveSession(Failing, p, s).err
                  = (IF s # EmptyStr THEN "not_found" ELSE "no_match")
    /\ (pc = "returned" /\ log.prev = "list" /\ ret.tool # "new_session")
       => ret.status \in {"not_found", "no_match", "ambiguous", "hash_required",
                          "keys_required"}

\* a call by prefix has returned the not-found error while each prefix has
\* exactly one live session
C11_Witness ==
    /\ pc = "returned" /\ ret.status = "no_match"
    /\ \A p \in PrefixArgs : Cardinality(Matching(p)) = 1

\* the calls of createUniqueSession that have returned a name
Created == {c \in DOMAIN creators : creators[c].pc = "done"}

\* the calls that have returned the error of the exhausted loop
Exhausted == {c \in DOMAIN creators : creators[c].pc = "failed"}

\* C12: name uniqueness within the process.  No two calls of
\* createUniqueSession that have succeeded have returned the same name, in
\* any interleaving; every returned name is in the registry, and newSession
\* goes to the backend only with a name the registry does not hold, be the
\* session of that name alive or not.
C12_NameUniqueWithinProcess ==
    /\ \A c1, c2 \in Created :
           c1 # c2 => creators[c1].sessionName # creators[c2].sessionName
    /\ \A c \in Created : creators[c].sessionName \in createdSessions
    /\ \A c \in DOMAIN creators :
           creators[c].pc = "locked"
               => /\ creators[c].sessionName \notin createdSessions
                  /\ createdSessionsMu = c
    /\ createdSessionsMu # 0 => creators[createdSessionsMu].pc = "locked"

\* two calls have returned names, a name of the registry was drawn again
\* while its session was gone
C12_Witness ==
    /\ Created = Creators
    /\ \E c \in Created :
           /\ creators[c].sessionName \notin DOMAIN sessions
           /\ \E d \in Created \ {c} : creators[d].i > 1

\* C13 as stated: concurrent calls, fewer than the retry bound, all succeed
\* and return pairwise distinct names whatever suffixes are drawn.
C13_AllSucceedDistinct ==
    /\ Exhausted = {}
    /\ \A c1, c2 \in Created :
           c1 # c2 => creators[c1].sessionName # creators[c2].sessionName

\* C13: uniqueness under pressure.  The concurrent calls that succeed return
\* pairwise distinct names, each the name of a session that call created; a
\* call returns the error of the exhausted loop only after 100 turns that
\* all failed, which the drawn suffixes can bring about however few the
\* calls are.
C13_DistinctOrExhausted ==
    /\ \A c1, c2 \in Created :
           c1 # c2 => creators[c1].sessionName # creators[c2].sessionName
    /\ \A c \in Created : creators[c].made = 1 /\ creators[c].sessionName \in CreatorNames
    /\ \A c \in Exhausted : creators[c].i = MaxAttempts /\ creators[c].made = 0
    /\ Cardinality(createdSessions) = Cardinality(Created)

\* one of the calls has succeeded and another has exhausted its loop
C13_Witness ==
    /\ Created # {} /\ Exhausted # {}
    /\ NumCreators < MaxAttempts

\* the turns call c has behind it, counted so that every step adds to it
Progress(c) ==
    IF creators[c].pc \in {"done", "failed"} THEN 2 * MaxAttempts + 2
    ELSE 2 * creators[c].i + (IF creators[c].pc = "locked" THEN 1 ELSE 0)

C14_Bounded ==
    \A c \in DOMAIN creators :
        /\ creators[c].i <= MaxAttempts /\ creators[c].made <= 1
        /\ creators[c].pc = "done"
               => /\ creators[c].made = 1 /\ creators[c].i >= 1
                  /\ creators[c].sessionName \in createdSessions
        /\ creators[c].pc = "failed"
               => creators[c].made = 0 /\ creators[c].i = MaxAttempts
        /\ creators[c].made = 1 => creators[c].pc = "done"

C14_Steps ==
    \A c \in DOMAIN creators :
        creators'[c] # creators[c]
            => /\ creators[c].pc \notin {"done", "failed"}
               /\ Progress(c)' > Progress(c)
               /\ (creators[c].pc = "loop" /\ creators[c].i = MaxAttempts)
                      => creators'[c].pc = "failed"
               /\ creators'[c].pc = "done"
                      => /\ creators[c].pc = "locked"
                         /\ creators'[c].sessionName = creators[c].sessionName
                         /\ creators'[c].sessionName \in DOMAIN sessions'
                         /\ creators'[c].sessionName \notin DOMAIN sessions

\* C14: bounded collision retry.  createUniqueSessionWithEnv makes at most
\* 100 attempts; the attempt that creates a session ends the call, which
\* returns the name of that attempt and attempts nothing more; the error of
\* the exhausted loop is returned exactly after 100 failed attempts; every
\* step takes the call nearer to its end, and every call ends.
C14_BoundedCollisionRetry ==
    /\ []C14_Bounded
    /\ [][C14_Steps]_vars
    /\ <>[](Created \cup Exhausted = DOMAIN creators)

\* a call has returned the name of its third attempt after two that failed
C14_Witness ==
    \E c \in Created :
        /\ creators[c].i = 3 /\ creators[c].made = 1
        /\ creators[c].sessionName \in DOMAIN sessions

\* the followed call has returned with outcome
Waited(kind, outcome) ==
    /\ DOMAIN waiter # {}
    /\ waiter.kind = kind /\ waiter.pc = "done" /\ waiter.outcome = outcome

\* C15 as stated: stable is returned only when the bytes of the pane have not
\* changed for 500 ms up to the capture, never before 500 ms of the call have
\* passed, and the snapshot is the content of the pane.
C15_StableAfterQuietBytes ==
    Waited("stability", "stable")
        => /\ waiter.sinceOutput >= stabilityThreshold
           /\ waiter.age >= stabilityThreshold
           /\ WaitName \in DOMAIN sessions /\ waiter.snapshot = sessions[WaitName]

\* C15: stability debounce.  waitForStability returns a stable snapshot only
\* at a poll whose formatted output equals the formatted output of the polls
\* before it, 500 ms or more after the poll that first saw that output (what
\* the pane showed between polls, and differences formatOutput hides, are not
\* looked at); never before 500 ms of the call have passed; and the snapshot
\* is the content the pane has at that poll, which formats to the output
\* that was compared.
C15_StabilityDebounce ==
    Waited("stability", "stable")
        => /\ waiter.sinceChange >= stabilityThreshold
           /\ waiter.age >= stabilityThreshold
           /\ WaitName \in DOMAIN sessions /\ waiter.snapshot = sessions[WaitName]
           /\ formatOutput(waiter.snapshot) = waiter.lastOutput
           /\ ~waiter.expired

\* stable is returned although the pane changed just before the last poll
C15_Witness ==
    /\ Waited("stability", "stable")
    /\ waiter.snapshot = <<SP>>
    /\ waiter.sinceOutput = 0

\* C16: degraded success on deadline.  When the deadline of waitForStability
\* has passed before stability was seen and a capture of the wait has
\* succeeded, the call returns a snapshot that formats to the output of the
\* last successful capture, without an error.
C16_DegradedSuccessOnDeadline ==
    (Waited("stability", waiter.outcome) /\ waiter.expired /\ waiter.lastOutput # EmptyStr)
        => /\ waiter.outcome = "degraded"
           /\ formatOutput(waiter.snapshot) = waiter.lastOutput

\* the followed call makes a call of the backend that fails: the session is
\* gone or the context is done
CaptureFails ==
    /\ \/ waiter.pc = "select" /\ waiter.untilTick = 0 /\ waiter'.untilTick = checkInterval
       \/ waiter.pc \in {"pane", "cursor"} /\ waiter'.pc # waiter.pc
    /\ WaitName \notin DOMAIN sessions \/ waiter.expired

\* C17 as stated: when the first capture of waitForStability fails, before
\* any capture has succeeded, the call returns an error from that attempt.
C17_FirstFailureReturnsError ==
    [][ (/\ waiter.kind = "stability" /\ waiter.lastOutput = EmptyStr
         /\ waiter.age = checkInterval /\ CaptureFails)
        => waiter'.pc = "done" /\ waiter'.outcome = "cancelled" ]_vars

\* C17: early disappearance.  A capture of waitForStability that fails, the
\* first one included, is skipped: the call stays in its loop with lastOutput
\* and lastChange as they were and polls again at the next tick.  It returns
\* an error only from the ctx.Done branch, once the deadline has passed, and
\* then without a snapshot.
C17_FailedCaptureIsSkipped ==
    [][ waiter.kind = "stability"
        => /\ CaptureFails
              => /\ waiter'.pc = "select" /\ waiter'.outcome = "none"
                 /\ waiter'.lastOutput = waiter.lastOutput
                 /\ waiter'.sinceChange = waiter.sinceChange
           /\ (waiter'.pc = "done" /\ waiter'.outcome = "cancelled")
              => /\ waiter.pc = "select" /\ waiter.expired
                 /\ waiter'.snapshot = EmptyStr ]_vars

\* no capture has succeeded, the session is gone, and the call still polls
\* 500 ms after it began
C17_Witness ==
    /\ DOMAIN waiter # {}
    /\ waiter.kind = "stability" /\ waiter.pc = "select"
    /\ ~waiter.expired
    /\ waiter.lastOutput = EmptyStr
    /\ WaitName \notin DOMAIN sessions
    /\ waiter.age >= stabilityThreshold

\* C18: expectation cursor scoping.  waitForExpected returns Matched only
\* when the expected text is on the line of the cursor in what the pane shows
\* at the observation: in the content capture-pane returned, with the cursor
\* where it stood then, or in the content of the pane when the position of
\* the cursor was read.
C18_MatchedOnlyOnCursorLine ==
    Waited("expected", "matched")
        => \/ OnCursorLine(waiter.snapshot)
           \/ WaitName \in DOMAIN sessions /\ OnCursorLine(sessions[WaitName])

\* the followed call reads the position of the cursor and finds the expected
\* text on the line it takes for the cursor line
CursorLineMatches ==
    /\ waiter.pc = "cursor" /\ waiter'.pc # "cursor"
    /\ ~CaptureFails
    /\ Contains(cursorLineOf(waiter.capOut, CursorY(sessions[waiter.capName])),
                WaitExpected)

\* C19: prompt match.  While waitForExpected runs and its deadline has not
\* passed, the expected text is never on the cursor line for more than one
\* poll interval without a break: the tick that follows returns Matched; and
\* a tick that finds the text on the cursor line returns Matched whatever
\* the stall clock says.
C19_PromptMatch ==
    /\ []((DOMAIN waiter # {} /\ waiter.kind = "expected" /\ waiter.pc # "done"
           /\ ~waiter.expired) => waiter.onLineFor <= checkInterval)
    /\ [][CursorLineMatches => waiter'.outcome = "matched"]_vars

\* the tick of the followed call has captured the pane and read the cursor,
\* and the expected text is not on the line taken for the cursor line
TickWithoutMatch ==
    /\ waiter.kind = "expected"
    /\ waiter.pc = "cursor" /\ waiter'.pc # "cursor"
    /\ ~CaptureFails /\ ~CursorLineMatches

ExpectPcs == {"wfe", "wfe_pane", "wfe_cursor"}

\* C21: failure terminals keep the snapshot.  When the expectation wait of a
\* handler ends with an error (no new output, or the deadline), the result
\* the handler returns with the error carries the snapshot last captured:
\* its hash is not empty.
C21_FailureKeepsSnapshot ==
    [][ (pc \in ExpectPcs /\ pc' = "returned" /\ ret'.status # "ok")
        => ret'.hash # EmptyStr ]_vars

\* the followed call was made by caller with max_wait unset and has returned
\* after a wait in which the pane did not change
QuietWaitDone(caller) ==
    /\ DOMAIN waiter # {}
    /\ waiter.caller = caller /\ waiter.pc = "done" /\ waiter.quiet

\* C22: default expectation deadline.  The waitForExpected that
\* sendKeysCommon starts without a max wait has a deadline of 60 s, longer
\* than the 20 s without output: on a pane that never changes and never
\* shows the expected text it ends with the stall failure, not with the
\* deadline.
C22_DefaultExpectationDeadline ==
    (QuietWaitDone("sendKeysCommon") /\ waiter.outcome # "matched")
        => /\ waiter.outcome = "stalled"
           /\ DeadlineOf("sendKeysCommon") = expectWaitTimeout * 10
           /\ DeadlineOf("sendKeysCommon") > noOutputTimeout

\* C23: default creation wait.  The wait NewSessionTool.Handle starts with
\* max_wait unset has a deadline of 10 seconds: a new session whose pane is
\* settled is returned as stable with what the pane shows.
C23_DefaultCreationWait ==
    (QuietWaitDone("NewSessionTool") /\ waiter.kind = "stability")
        => /\ waiter.outcome = "stable"
           /\ WaitName \in DOMAIN sessions /\ waiter.snapshot = sessions[WaitName]
           /\ DeadlineOf("NewSessionTool") = 10 * 10

\* C24: cancellation terminates every wait.  Once the context of
\* waitForStability or waitForExpected is done the call returns, and what it
\* returns is the last good snapshot: when a capture of the wait has
\* succeeded, a snapshot that formats to the output captured last.
C24_CancellationTerminates ==
    /\ (waiter.expired ~> waiter.pc = "done")
    /\ []((waiter.pc = "done" /\ waiter.expired /\ waiter.lastOutput # EmptyStr)
          => formatOutput(waiter.snapshot) = waiter.lastOutput)

GatedTools == SendTools \cup {"kill"}

\* the running or returned call has sent keys or killed a session
Acted == log.nKeys + log.nEnter > 0 \/ log.killed # {}

\* C25 as stated: a send-keys or kill executor that acts makes exactly one
\* check of the hash, and no executor calls more than one polling wait.
C25_OneCheckOneWait ==
    CurTool \in GatedTools
        => /\ log.nVerify <= 1
           /\ Acted => log.nVerify = 1
           /\ log.nWaits <= 1

\* C25: single flow per action.  A send-keys or kill executor checks the
\* hash at most once, and exactly once when it acts.  KillTool.Handle calls
\* no polling wait; sendKeysCommon (send-keys with expect, control keys)
\* calls at most one, waitForExpected; SendKeysTool.handleWithoutExpect
\* calls two, one after the other: waitForKeysToAppear and then
\* waitForStability.
C25_OneCheckWaitsInSequence ==
    CurTool \in GatedTools
        => /\ log.nVerify <= 1
           /\ Acted => log.nVerify = 1
           /\ log.nWaits <= 2
           /\ CurTool = "kill" => log.nWaits = 0
           /\ (CurTool = "send_control_keys" \/ pc \in {"skc_verify", "skc_keys", "skc_enter"}
               \/ pc \in ExpectPcs) => log.nWaits <= 1
           /\ log.nWaits = 2 => CurTool = "send_keys" /\ pc \in {"wfs", "wfs_pane", "returned"}
           /\ (pc \in {"wfs", "wfs_pane"}) => log.nWaits = 2

\* send-keys without expect has returned its snapshot after both waits
C25_Witness ==
    /\ Returned({"send_keys"}, "ok")
    /\ log.nVerify = 1 /\ log.nKeys = 1
    /\ log.nWaits = 2

\* C26: mismatch is diagnosable.  When verifySessionHash rejects a call
\* because the hash of the fresh capture differs from the hash the caller
\* gave, the text of the error names both hashes.
C26_MismatchNamesBothHashes ==
    [][ (pc \in SendVerifyPcs \cup {"kill_verify"} /\ HandlerStep /\ Drifted)
        => /\ ret'.status = "state_changed"
           /\ call.hash \in ret'.mentions
           /\ hashOf[sessions[loc.name]] \in ret'.mentions ]_vars

\* sendKeysCommon, called without expect, sends the keys or the Enter
SendsWithoutExpect ==
    /\ pc \in {"skc_keys", "skc_enter"} /\ HandlerStep
    /\ call.expect = EmptyStr

\* C27: send without expectation returns at once.  sendKeysCommon with a
\* hash that matched, keys and no expect sends the keys, and Enter when
\* asked, each send changing the content of the pane; it calls no wait and
\* returns without error a result without output and without hash, leaving
\* the caller with the hash it had.
C27_SendWithoutExpectReturnsAtOnce ==
    [][ SendsWithoutExpect
        => /\ log.verified = loc.name /\ log.nVerify = 1
           /\ pc' \in {"skc_enter", "returned"}
           /\ log'.nWaits = 0
           /\ loc.name \in DOMAIN sessions
              => /\ sessions'[loc.name] # sessions[loc.name]
                 /\ pc = "skc_keys" => sessions'[loc.name] = sessions[loc.name] \o call.keys
                 /\ (pc' = "returned") = (pc = "skc_enter" \/ ~log.enter)
                 /\ pc' = "returned"
                    => /\ ret'.status = "ok" /\ ret'.name = loc.name
                       /\ ret'.hash = EmptyStr /\ token' = token
                       /\ log'.nKeys = 1
                       /\ log'.nEnter = (IF log.enter THEN 1 ELSE 0) ]_vars

\* control keys and Enter have been sent without expect
C27_Witness ==
    /\ Returned({"send_control_keys"}, "ok")
    /\ ret.hash = EmptyStr
    /\ log.nKeys = 1 /\ log.nEnter = 1 /\ log.nWaits = 0
    /\ ret.name \in DOMAIN sessions /\ fresh # ret.name

(***************************************************************************)
(* C28  Wait for change: CaptureTool.Handle with wait_for_change = h       *)
(* returns without error; a result marked "changed from h" has a Hash      *)
(* other than h, and a result marked "unchanged after" has the Hash h.     *)
(***************************************************************************)
C28_WaitForChange ==
    [][ (pc = "whc" /\ pc' = "returned")
            => /\ ret'.status = "ok"
               /\ ret'.mark = "changed" => ret'.hash # call.hash
               /\ ret'.mark = "unchanged" => ret'.hash = call.hash ]_vars

(***************************************************************************)
(* C29  Bash timeout leaves the session running: when Handle takes the     *)
(* timeout and the command has not written its exit file, the result is an *)
(* error whose text holds "timed out" and the name of the session, and     *)
(* no step of the handler after the creation touches the sessions of the   *)
(* server; when Handle returns with the exit code 0 in the exit file the   *)
(* result is the output, without error.                                    *)
(***************************************************************************)
C29_BashTimeoutLeavesSessionRunning ==
    [][ /\ (bashTimeout /\ bash.exitFile = "none")
            => /\ bash'.result = "error"
               /\ bash'.warnBuf \cap TimedOutWarnings # {}
               /\ bash'.warnBuf \cap SessionWarnings # {}
               /\ bash'.sessionName = bash.sessionName
        /\ (BashStep /\ bash.pc # "create")
            => /\ sessions' = sessions
               /\ bash'.killed = {}
        /\ (BashStep /\ bash'.pc = "done" /\ bash'.result # "panic" /\ bash.exitFile = "0")
            => /\ bash'.result = "output"
               /\ bash'.resultBuf = bash.outputFile ]_vars

\* the command is still running in its session when Handle returns the error
\* of the timeout
C29_Witness ==
    /\ DOMAIN bash # {}
    /\ bash.pc = "done"
    /\ bash.result = "error"
    /\ "timeout" \in bash.warnBuf
    /\ bash.exitFile = "none"
    /\ bash.sessionName \in DOMAIN sessions

(***************************************************************************)
(* C30  Hot reload replaces the tool set: when a restart ends with         *)
(* success, no tool was registered when its tools were loaded, and the     *)
(* tools registered with the wrapper server are those the restarted server *)
(* lists.                                                                  *)
(***************************************************************************)
\* the tools of a version that have a name
namedTools(version) == {toolsList(version)[i] : i \in DOMAIN toolsList(version)} \ {""}
C30_HotReloadReplacesToolSet ==
    [][ (restartLoadTools /\ wrapper'.restarted = "ok")
            => /\ wrapper.serverTools = {}
               /\ wrapper'.serverTools = namedTools(wrapper'.currentProcess) ]_vars

(***************************************************************************)
(* C31  Token is single-use: once an action has been executed on a session *)
(* with the token the caller holds, a mutating call that presents the same *)
(* token for that session is rejected by verifySessionHash.                *)
(***************************************************************************)
\* the running call presents, for the session it was spent on, the token
\* the caller holds, and verifySessionHash takes its step
SpentTokenPresented ==
    /\ pc \in SendVerifyPcs
    /\ HandlerStep
    /\ token # EmptyStr
    /\ call.hash = token
    /\ log.spent = loc.name

C31_TokenIsSingleUse ==
    [][ SpentTokenPresented => ret'.status \in {"state_changed", "verify_failed"} ]_vars

\* C31 as the code has it: the spent token is rejected exactly when the
\* content of the session has another hash than the token, and it is
\* accepted again, and the keys are sent, when the content has the hash of
\* the token again.
C31_SpentTokenRejectedOnDrift ==
    [][ SpentTokenPresented
            => /\ Drifted => ret'.status = "state_changed" /\ log'.nKeys = 0
               /\ (loc.name \in DOMAIN sessions /\ ~Drifted)
                      => pc' \in SendKeysPcs /\ log'.byToken ]_vars

C31_Witness ==
    /\ pc \in SendVerifyPcs
    /\ token # EmptyStr
    /\ call.hash = token
    /\ log.spent = loc.name
    /\ Drifted

(***************************************************************************)
(* C32  Registry tracks exactly the successful creations: createdSessions  *)
(* holds the names of the calls of newSession that created their session   *)
(* and no other name; an attempt that fails leaves it as it is, a creation *)
(* adds its one name, and it is read and written only by the call that     *)
(* holds createdSessionsMu.                                                *)
(***************************************************************************)
C32_RegistryIsCreated ==
    /\ createdSessions = {creators[c].sessionName : c \in Created}
    /\ \A c \in DOMAIN creators : creators[c].made = 1 <=> c \in Created

C32_RegistrySteps ==
    \A c \in DOMAIN creators :
        creators'[c] # creators[c]
            => /\ (creators[c].pc = "loop" /\ creators[c].i < MaxAttempts)
                      => createdSessionsMu = 0
               /\ creators[c].pc = "locked" => createdSessionsMu = c
               /\ creators'[c].made = creators[c].made
                      => createdSessions' = createdSessions
               /\ creators'[c].made # creators[c].made
                      => /\ creators[c].pc = "locked"
                         /\ creators[c].sessionName \notin createdSessions
                         /\ creators[c].sessionName \notin DOMAIN sessions
                         /\ creators[c].sessionName \in DOMAIN sessions'
                         /\ createdSessions' = createdSessions \cup {creators[c].sessionName}

C32_RegistryTracksCreations ==
    /\ []C32_RegistryIsCreated
    /\ [][C32_RegistrySteps]_vars
    /\ [][createdSessions' # createdSessions
              => \E c \in DOMAIN creators : creators'[c] # creators[c]]_vars

\* the registry holds the one name that was created, and a call has an
\* attempt behind it that failed and left the registry as it was
C32_Witness ==
    /\ Cardinality(createdSessions) = 1
    /\ \E c \in DOMAIN creators :
           creators[c].pc = "loop" /\ creators[c].i >= 1 /\ creators[c].made = 0

(***************************************************************************)
(* C33  Transient capture failures are skipped without side effect: a      *)
(* call of the backend that fails in a tick of waitForStability or of      *)
(* waitForExpected leaves lastOutput and lastChange as they were, and the  *)
(* call goes back to its select without returning.                         *)
(***************************************************************************)
C33_CaptureFailureIsSkipped ==
    [][ CaptureFails
            => /\ waiter'.pc = "select"
               /\ waiter'.outcome = "none" /\ waiter'.snapshot = EmptyStr
               /\ waiter'.lastOutput = waiter.lastOutput
               /\ waiter'.sinceChange = waiter.sinceChange
               /\ waiter'.untilTick = checkInterval ]_vars

\* waitForExpected has seen an output, and the session is gone when the tick
\* asks for the position of the cursor
C33_Witness ==
    /\ DOMAIN waiter # {}
    /\ waiter.kind = "expected" /\ waiter.pc = "cursor"
    /\ ~waiter.expired
    /\ waiter.lastOutput # EmptyStr
    /\ waiter.sinceChange > 0
    /\ WaitName \notin DOMAIN sessions

(***************************************************************************)
(* C34  Deadline is independent of output activity: once the deadline of   *)
(* waitForExpected has passed, the call can always go on, each of its      *)
(* steps takes it nearer to its return, and it returns the deadline        *)
(* failure and nothing else, however lately the output has changed.        *)
(***************************************************************************)
\* the steps an expired call has before its return, at most
StepsLeft ==
    IF waiter.pc = "done" THEN 0
    ELSE IF waiter.pc = "cursor" THEN 2
    ELSE IF waiter.pc = "pane" THEN 3
    ELSE IF waiter.untilTick > 0 THEN 1 ELSE 4

ExpiredExpectation ==
    DOMAIN waiter # {} /\ waiter.kind = "expected" /\ waiter.expired

C34_DeadlineIndependentOfOutput ==
    /\ []((ExpiredExpectation /\ waiter.pc # "done") => ENABLED WaiterStep)
    /\ []((ExpiredExpectation /\ waiter.pc = "select" /\ waiter.untilTick > 0)
              => ENABLED timedDone /\ ~ENABLED TimePasses)
    /\ [][ (ExpiredExpectation
            /\ (waiter'.pc # waiter.pc \/ waiter'.untilTick # waiter.untilTick))
              => /\ StepsLeft' < StepsLeft
                 /\ waiter'.outcome \in {"none", "cancelled"}
                 /\ waiter'.pc = "done" => waiter'.outcome = "cancelled" ]_vars

\* the deadline failure is returned although the output changed less than
\* one tick before and was never still
C34_Witness ==
    /\ Waited("expected", "cancelled")
    /\ waiter.expired
    /\ ~waiter.quiet
    /\ waiter.lastOutput # EmptyStr
    /\ waiter.sinceChange < checkInterval
    /\ waiter.sinceOutput = 0

(***************************************************************************)
(* C35  A waiter observes only its own session: the snapshot a handler     *)
(* returns from waitForStability or waitForExpected for the session it     *)
(* resolved has the name of that session and was captured from it.         *)
(***************************************************************************)
C35_WaiterObservesOwnSession ==
    [][ (pc \in {"wfs_pane", "wfe_cursor"} /\ pc' = "returned" /\ ret'.hash # EmptyStr)
            => /\ loc.capName = loc.name
               /\ ret'.name = loc.name ]_vars

\* the step of handleWithoutExpect that injects Enter into the session
EnterInjected == pc = "hwe_enter" /\ HandlerStep /\ sessions' # sessions

\* the wait for the keys ends on its deadline
KeysWaitTimesOut == pc = "wka" /\ pc' = "returned"

(***************************************************************************)
(* C36  Enter follows the echoed keys: handleWithoutExpect injects Enter   *)
(* into the session only after a capture of that session has shown the    *)
(* sent keys; when the wait for the keys times out the handler returns the *)
(* timeout error, has issued the keys once and Enter never, has started no *)
(* stability wait, and leaves the panes as they are.                       *)
(***************************************************************************)
C36_EnterFollowsEchoedKeys ==
    [][ /\ EnterInjected => log.shown = loc.name /\ log.nKeys = 1
        /\ KeysWaitTimesOut
              => /\ ret'.status = "keys_timeout"
                 /\ log'.nKeys = 1 /\ log'.nEnter = 0
                 /\ log'.nWaits = 1
                 /\ sessions' = sessions ]_vars

(***************************************************************************)
(* C37  One session per prefix: whenever a call of NewSessionTool.Handle   *)
(* with allow_multiple=false returns success, the session it created is    *)
(* the only live session whose name starts with the prefix; a call returns *)
(* the "already exists" error only when a session with the prefix exists,  *)
(* and has created nothing.  For every interleaving of concurrent calls    *)
(* with the same prefix in one process.                                    *)
(***************************************************************************)
C37_OneSessionPerPrefix ==
    [][ \A c \in Creators :
          /\ (creators[c].pc = "done" /\ creators'[c].pc = "returned")
                => WithPrefix(sessions') = {creators[c].sessionName}
          /\ (creators[c].pc = "check" /\ creators'[c].pc = "exists")
                => WithPrefix(sessions) # {}
          /\ creators'[c].pc = "exists" => creators'[c].made = 0 ]_vars

\* proxy handler c writes its request to the stdin of the server
Forwards(c) ==
    wrapper.handlers[c].pc = "send" /\ wrapper'.handlers[c].pc = "read"

(***************************************************************************)
(* C38  Proxied calls get their own response: in every interleaving of     *)
(* concurrent calls of the proxy handlers, a handler that returns a        *)
(* response of the server returns the response to its own request, and     *)
(* the request it forwards has an ID no forwarded request had before.      *)
(***************************************************************************)
C38_ProxiedCallsGetOwnResponse ==
    [][ \A c \in Calls :
          /\ (wrapper.handlers[c].pc = "read" /\ wrapper'.handlers[c].pc = "returned")
                => wrapper'.handlers[c].of = c
          /\ Forwards(c) => wrapper.handlers[c].id \notin wrapper.forwarded ]_vars

(***************************************************************************)
(* C39  No forwarding during a restart: while isRestarting is set no proxy *)
(* handler writes a tool call to the stdin of the server; a handler that   *)
(* comes to its forwarding in that window returns the "Server is           *)
(* restarting" error.                                                      *)
(***************************************************************************)
C39_NoForwardingDuringRestart ==
    [][ \A c \in Calls :
          (wrapper.isRestarting /\ wrapper.handlers[c].pc \in {"idle", "send"}
                /\ wrapper'.handlers[c] # wrapper.handlers[c])
             => /\ wrapper'.currentStdin = wrapper.currentStdin
                /\ wrapper'.handlers[c].result = "restarting" ]_vars

(***************************************************************************)
(* C40  Bash polling never panics: whatever the order of the cancellation  *)
(* or timeout of the context and the ticker branch of the polling loop of  *)
(* BashTool.Handle, sessionExists does not panic on a backend error other  *)
(* than a missing session, and Handle returns a result.                    *)
(***************************************************************************)
C40_BashPollingNeverPanics ==
    [][ (bash.pc = "exists" /\ bash'.pc # "exists")
            => /\ bash'.result # "panic"
               /\ bash.ctxDone => bash'.pc \in {"select", "done"} ]_vars
====
